---- MODULE Spec2Model ----
(***************************************************************************)
(* The two live-session controllers of the repository:                     *)
(*   Conversation      (src/components/Conversation.tsx)                   *)
(*   AudioTranscriber  (src/components/ImageEditor.tsx, lines 700-954)     *)
(* with the one-shot functions of src/services/geminiService.ts, the       *)
(* components that call them, and the PCM and WAV codecs.                  *)
(* Each is a React function component: its refs and state are the          *)
(* variables below, each handler is one action.  A handler that awaits is  *)
(* split at the await, the continuation being its own action.  The         *)
(* browser (microphone, audio contexts) and the streaming session are the  *)
(* environment: their callbacks are actions that run the callback's code.  *)
(*                                                                         *)
(* Closures.  handleStart installs onopen/onmessage/onerror/onclose; these *)
(* closures, and the handleStop they call, belong to the render in which   *)
(* handleStart was called, so the `status` they read is the value of that  *)
(* render (closure[k]), not the current one.  Handlers invoked from the UI *)
(* belong to the latest render and read the current value.                 *)
(*                                                                         *)
(* Specifications:                                                         *)
(*   Spec         Conversation lifecycle: start, stop, every session event *)
(*   SpecPlay     Conversation playback scheduler within one session       *)
(*   SpecTurn     Conversation turn aggregator within one session          *)
(*   SpecRec      AudioTranscriber lifecycle                               *)
(*   SpecRecTurn  AudioTranscriber turn buffer and transcript              *)
(* and one specification for each further aspect (teardown, capture,       *)
(* errors, language, late events, the log, the decode suspension, the      *)
(* service gate, the generators, the codecs), each stated where its next-  *)
(* state relation is defined.                                              *)
(***************************************************************************)
EXTENDS Integers, Sequences, FiniteSets, TLC

\* ---------------------------------------------------------------- bounds
MaxStarts == 2      \* start() calls that pass the idle guard
MaxTurns == 2       \* turn-complete events that commit to the log
MaxChunks == 3      \* audio chunks scheduled
MaxDur == 2         \* longest chunk, in clock units
MaxClock == 3       \* playback clock values 0..MaxClock
MaxBlocks == 3      \* capture blocks handed to onaudioprocess
MaxCalls == 1       \* calls of the one-shot generation functions
MaxFrameChunks == 1 \* audio chunks scheduled among the lifecycle events
MaxPayload == 4     \* bytes of a PCM payload given to createWavUrl
MaxEdge == 40       \* samples taken this close to -1, 0 and 1, in steps of 1/65536

Null == 0
Calls == 1..MaxStarts

\* The release calls made so far on the resources of one start() call:
\* track.stop(), disconnect(), close() on each context, session.close().
NotReleased == [stream |-> 0, proc |-> 0, inCtx |-> 0, outCtx |-> 0, sess |-> 0]

\* ------------------------------------------------------------------ text
\* A text is a sequence of characters.  The sample texts: the empty one, a
\* blank one, one with leading and one with inner and trailing whitespace.
Texts ==
    { <<>>, <<" ">>, <<" ", "a">>, <<"b", " ", "c", " ">> }

IsSpace(c) == c \in {" ", "\n", "\t"}

RECURSIVE TrimStart(_)
TrimStart(t) ==
    IF t # <<>> /\ IsSpace(Head(t)) THEN TrimStart(Tail(t)) ELSE t

RECURSIVE TrimEnd(_)
TrimEnd(t) ==
    IF t # <<>> /\ IsSpace(t[Len(t)]) THEN TrimEnd(SubSeq(t, 1, Len(t) - 1)) ELSE t

\* String.prototype.trim
Trim(t) == TrimEnd(TrimStart(t))

\* An optional field of a message: absent, or present with a value.
Absent == <<>>
Some(v) == <<v>>

\* ------------------------------------------------------------- PCM codec
\* A sample is the number n / SampleDen for an integer n: the range [-1, 1]
\* is -SampleDen..SampleDen, in steps of half a quantisation step.
Int16Scale == 32768
SampleDen == 2 * Int16Scale

\* The integer part of num / den (den > 0), rounding toward zero.
Truncate(num, den) ==
    IF num >= 0 THEN num \div den ELSE -((-num) \div den)

\* A store into an Int16Array: the number is truncated and reduced modulo
\* 2^16 into -32768..32767.
ToInt16(num, den) ==
    ((Truncate(num, den) + Int16Scale) % (2 * Int16Scale)) - Int16Scale

\* new Uint8Array(int16.buffer): two bytes per element, low byte first.
Bytes(q) == << (q % (2 * Int16Scale)) % 256, (q % (2 * Int16Scale)) \div 256 >>

RECURSIVE Uint8Array(_)
Uint8Array(int16) ==
    IF int16 = <<>> THEN <<>> ELSE Bytes(Head(int16)) \o Uint8Array(Tail(int16))

\* new Int16Array(data.buffer): element i from bytes 2i-1 and 2i.
Int16Array(bytes) ==
    [i \in 1..(Len(bytes) \div 2) |->
        LET u == bytes[2 * i - 1] + 256 * bytes[2 * i]
        IN  IF u >= Int16Scale THEN u - 2 * Int16Scale ELSE u]

\* The base64 alphabet of btoa and atob; "=" pads the last group.
Alphabet ==
    << "A", "B", "C", "D", "E", "F", "G", "H", "I", "J", "K", "L", "M",
       "N", "O", "P", "Q", "R", "S", "T", "U", "V", "W", "X", "Y", "Z",
       "a", "b", "c", "d", "e", "f", "g", "h", "i", "j", "k", "l", "m",
       "n", "o", "p", "q", "r", "s", "t", "u", "v", "w", "x", "y", "z",
       "0", "1", "2", "3", "4", "5", "6", "7", "8", "9", "+", "/" >>

Char(sextet) == Alphabet[sextet + 1]

Sextet(c) == (CHOOSE i \in 1..Len(Alphabet) : Alphabet[i] = c) - 1

\* encode: btoa of the bytes, three bytes to four characters.
RECURSIVE encode(_)
encode(bytes) ==
    CASE Len(bytes) = 0 -> <<>>
      [] Len(bytes) = 1 ->
             << Char(bytes[1] \div 4), Char((bytes[1] % 4) * 16), "=", "=" >>
      [] Len(bytes) = 2 ->
             << Char(bytes[1] \div 4),
                Char((bytes[1] % 4) * 16 + bytes[2] \div 16),
                Char((bytes[2] % 16) * 4), "=" >>
      [] OTHER ->
             << Char(bytes[1] \div 4),
                Char((bytes[1] % 4) * 16 + bytes[2] \div 16),
                Char((bytes[2] % 16) * 4 + bytes[3] \div 64),
                Char(bytes[3] % 64) >> \o encode(SubSeq(bytes, 4, Len(bytes)))

\* decode: atob of the text, four characters to at most three bytes.
RECURSIVE decode(_)
decode(base64) ==
    IF Len(base64) < 4 THEN <<>>
    ELSE LET a == Sextet(base64[1])
             b == Sextet(base64[2])
             rest == decode(SubSeq(base64, 5, Len(base64)))
         IN  CASE base64[3] = "=" -> << a * 4 + b \div 16 >>
               [] base64[4] = "=" ->
                      << a * 4 + b \div 16,
                         (b % 16) * 16 + Sextet(base64[3]) \div 4 >>
               [] OTHER ->
                      << a * 4 + b \div 16,
                         (b % 16) * 16 + Sextet(base64[3]) \div 4,
                         (Sextet(base64[3]) % 4) * 64 + Sextet(base64[4]) >> \o rest

\* createBlob: int16[i] = data[i] * 32768, then the base64 text of the
\* array's bytes (the mimeType beside it is a constant).  The product
\* (n / SampleDen) * Int16Scale is n / (SampleDen / Int16Scale).
createBlob(data) ==
    encode(Uint8Array([i \in 1..Len(data) |->
        ToInt16(data[i], SampleDen \div Int16Scale)]))

\* decodeAudioData with one channel: channelData[i] = dataInt16[i] / 32768.0
decodeAudioData(data) ==
    [i \in 1..Len(Int16Array(data)) |->
        Int16Array(data)[i] * (SampleDen \div Int16Scale)]

\* ---------------------------------------------------------- the language
\* The values of the language select, in the order of its options.
supportedLanguages ==
    << "English", "Kurdish (Sorani)", "Kurdish (Badini)", "Arabic", "Spanish",
       "French", "German", "Japanese", "Chinese (Mandarin)" >>

Languages == {supportedLanguages[i] : i \in 1..Len(supportedLanguages)}

Assistant == "You are a friendly and helpful AI assistant."

Converse(l) == Assistant \o " You MUST converse in " \o l \o "."

Critical(l, script, tail) ==
    Assistant \o " **CRITICAL INSTRUCTION:** The user is speaking " \o l
        \o ". You MUST understand and respond *only* in " \o l \o " using the "
        \o script \o " script. " \o tail

Natural == "Your responses should be natural and conversational."

\* The static table of behaviour instructions, by language.
conversationLanguagePrompts ==
    [l \in {"English", "Spanish", "French", "German", "Japanese",
             "Chinese (Mandarin)"} |-> Converse(l)]
    @@ ("Kurdish (Sorani)" :> Critical("Kurdish (Sorani)", "Arabic", Natural))
    @@ ("Kurdish (Badini)" :>
            Critical("Kurdish (Badini / Kurmanji)", "Latin", Natural))
    @@ ("Arabic" :>
            Critical("Arabic", "Arabic",
                     "Pay attention to the dialect and respond appropriately."))

\* conversationLanguagePrompts[selectedLanguage] || `You are a friendly and
\* helpful AI assistant.`
languageInstruction(l) ==
    IF l \in DOMAIN conversationLanguagePrompts
    THEN conversationLanguagePrompts[l]
    ELSE Assistant

\* ------------------------------------------------- one-shot generators
\* The components whose generate handlers are modelled.
Components == {"ImageEditor", "TTS", "VirtualTryOn"}

\* A component's state after useState: nothing loading, no error, no result.
\* phase, fn, garment and requests describe the handler call in flight: where
\* it is suspended, the service function it awaits, the garment input its
\* closure holds, and the service requests it has issued.
Fresh ==
    [isLoading |-> FALSE, error |-> "null", result |-> "null",
     phase |-> "idle", fn |-> "none", garment |-> FALSE, requests |-> 0]

\* ------------------------------------------------------------- variables
VARIABLES
    \* Conversation: React state
    status, conversation, error,
    \* Conversation: refs
    sessionPromiseRef, inputAudioContextRef, outputAudioContextRef,
    scriptProcessorRef, mediaStreamRef, nextStartTimeRef, audioSourcesRef,
    currentInputTextRef, currentOutputTextRef,
    \* environment of Conversation, per start() call k
    nStarts,      \* start() calls that passed the guard so far
    call,         \* k -> position of handleStart call k
    closure,      \* k -> the status value the closures of call k read
    stream,       \* k -> microphone stream acquired by call k
    inCtx,        \* k -> input AudioContext created by call k
    outCtx,       \* k -> output AudioContext created by call k
    proc,         \* k -> script processor created by onopen of session k
    sess,         \* k -> streaming session opened by call k
    closeReq,     \* k -> session.close() has been requested on session k
    currentTime,  \* clock of the current output AudioContext
    sources,      \* buffer sources created so far: [start, dur, state, ctx]
    cancelled,    \* history: calls k that stop() overtook before session k opened
    epoch,        \* history: the scheduler's last event: "start", "chunk", "interrupted"
    hist,         \* history, per source: [at, prev, after] when it was scheduled
    captured,     \* capture blocks handed to onaudioprocess so far
    sent,         \* sendRealtimeInput calls issued, in order: [block, data, session, delivered]
    pend,         \* k -> sends waiting for the connect promise of call k
    opened,       \* the calls whose connect promise has resolved (onopen ran)
    \* Conversation: the language of the session
    selectedLanguage,   \* state: the language the select shows
    lang,               \* k -> selectedLanguage of the render handleStart k ran in
    systemInstruction,  \* k -> config.systemInstruction session k was opened with
    mounted,      \* the component is mounted
    released,     \* history: k -> how often each resource of call k was stopped/closed
    \* AudioTranscriber: React state
    isRecording, transcription, interimTranscript, recError,
    \* AudioTranscriber: refs
    recSessionPromiseRef, audioContextRef, recScriptProcessorRef,
    recMediaStreamRef, currentTurnTextRef,
    \* environment of AudioTranscriber, per handleStartRecording call k
    recStarts, recCall, recClosure, recStream, recCtx, recProc, recSess,
    recCloseReq,
    \* geminiService: the one-shot generation functions
    svcCalls,     \* the calls made so far: [fn, state, result]
    svcClients,   \* GoogleGenAI clients constructed
    svcRequests,  \* generateContent requests issued: [call, model]
    \* the PCM codec: one sample through createBlob and decodeAudioData
    codec,
    \* TTS: one payload through createWavUrl
    wav,
    \* the one-shot generators (ImageEditor, TTS, VirtualTryOn), per component:
    \* [isLoading, error, result, phase, fn, garment, requests]
    gen,
    \* the event loop: continuations of onmessage suspended at
    \* `await decodeAudioData`, in order: [call, message, settled, overtaken]
    \* (overtaken is history: an interruption was handled while it waited)
    microtasks

stateVars == <<status, conversation, error>>
refVars == <<sessionPromiseRef, inputAudioContextRef, outputAudioContextRef,
             scriptProcessorRef, mediaStreamRef>>
textVars == <<currentInputTextRef, currentOutputTextRef>>
playVars == <<nextStartTimeRef, audioSourcesRef, currentTime, sources, epoch, hist>>
resVars == <<stream, inCtx, outCtx, proc, sess, closeReq>>
callVars == <<nStarts, call, closure, cancelled>>
capVars == <<captured, sent, pend, opened>>
langVars == <<selectedLanguage, lang, systemInstruction>>
lifeVars == <<mounted, released>>

convVars == <<stateVars, refVars, textVars, playVars, resVars, callVars,
              capVars, langVars, lifeVars>>

recStateVars == <<isRecording, transcription, interimTranscript, recError>>
recRefVars == <<recSessionPromiseRef, audioContextRef, recScriptProcessorRef,
                recMediaStreamRef>>
recResVars == <<recStream, recCtx, recProc, recSess, recCloseReq>>
recCallVars == <<recStarts, recCall, recClosure>>
recVars == <<recStateVars, recRefVars, currentTurnTextRef, recResVars, recCallVars>>

svcVars == <<svcCalls, svcClients, svcRequests>>

vars == <<convVars, recVars, svcVars, codec, wav, gen, microtasks>>

\* What an action of one component leaves alone.
nonLoop == <<recVars, svcVars, codec, wav, gen>>
nonConv == <<nonLoop, microtasks>>
nonRec == <<convVars, svcVars, codec, wav, gen, microtasks>>
nonSvc == <<convVars, recVars, codec, wav, gen, microtasks>>
nonCodec == <<convVars, recVars, svcVars, wav, gen, microtasks>>
nonWav == <<convVars, recVars, svcVars, codec, gen, microtasks>>
nonGen == <<convVars, recVars, svcVars, codec, wav, microtasks>>

\* ------------------------------------------------------------------ Init
InitComponents ==
    /\ status = "idle"
    /\ conversation = <<>>
    /\ error = "null"
    /\ sessionPromiseRef = Null
    /\ inputAudioContextRef = Null
    /\ outputAudioContextRef = Null
    /\ scriptProcessorRef = Null
    /\ mediaStreamRef = Null
    /\ nextStartTimeRef = 0
    /\ audioSourcesRef = {}
    /\ currentInputTextRef = <<>>
    /\ currentOutputTextRef = <<>>
    /\ nStarts = 0
    /\ call = [k \in Calls |-> "none"]
    /\ closure = [k \in Calls |-> "idle"]
    /\ stream = [k \in Calls |-> "none"]
    /\ inCtx = [k \in Calls |-> "none"]
    /\ outCtx = [k \in Calls |-> "none"]
    /\ proc = [k \in Calls |-> "none"]
    /\ sess = [k \in Calls |-> "none"]
    /\ closeReq = [k \in Calls |-> FALSE]
    /\ currentTime = 0
    /\ sources = <<>>
    /\ cancelled = {}
    /\ epoch = "start"
    /\ hist = <<>>
    /\ captured = 0
    /\ sent = <<>>
    /\ pend = [k \in Calls |-> <<>>]
    /\ opened = {}
    /\ selectedLanguage = supportedLanguages[1]
    /\ lang = [k \in Calls |-> "none"]
    /\ systemInstruction = [k \in Calls |-> "none"]
    /\ mounted = TRUE
    /\ released = [k \in Calls |-> NotReleased]
    /\ isRecording = FALSE
    /\ transcription = <<>>
    /\ interimTranscript = <<>>
    /\ recError = "null"
    /\ recSessionPromiseRef = Null
    /\ audioContextRef = Null
    /\ recScriptProcessorRef = Null
    /\ recMediaStreamRef = Null
    /\ currentTurnTextRef = <<>>
    /\ recStarts = 0
    /\ recCall = [k \in Calls |-> "none"]
    /\ recClosure = [k \in Calls |-> FALSE]
    /\ recStream = [k \in Calls |-> "none"]
    /\ recCtx = [k \in Calls |-> "none"]
    /\ recProc = [k \in Calls |-> "none"]
    /\ recSess = [k \in Calls |-> "none"]
    /\ recCloseReq = [k \in Calls |-> FALSE]
    /\ svcCalls = <<>>
    /\ svcClients = 0
    /\ svcRequests = <<>>
    /\ gen = [c \in Components |-> Fresh]
    /\ microtasks = <<>>

NoSample == [stage |-> "none", s |-> 0, blob |-> <<>>, out |-> <<>>]
NoPayload == [stage |-> "none", payload |-> <<>>, base64 |-> <<>>, out |-> <<>>]

\* No sample is in the codec and no payload in createWavUrl.
Init ==
    /\ InitComponents
    /\ codec = NoSample
    /\ wav = NoPayload

\* ------------------------------------------------- Conversation: cleanup
Release(res, ref, to) ==
    IF ref # Null THEN [res EXCEPT ![ref] = to] ELSE res

Count(ref, k) == IF ref = k THEN 1 ELSE 0

\* The release calls after cleanup has gone through the five references.
Released ==
    [k \in Calls |->
        [stream |-> released[k].stream + Count(mediaStreamRef, k),
         proc |-> released[k].proc + Count(scriptProcessorRef, k),
         inCtx |-> released[k].inCtx + Count(inputAudioContextRef, k),
         outCtx |-> released[k].outCtx + Count(outputAudioContextRef, k),
         sess |-> released[k].sess + Count(sessionPromiseRef, k)]]

\* Mutant of cleanup: the session is dropped without being closed.
cleanup_sessionNotClosed ==
    /\ stream' = Release(stream, mediaStreamRef, "stopped")
    /\ proc' = Release(proc, scriptProcessorRef, "disconnected")
    /\ inCtx' = Release(inCtx, inputAudioContextRef, "closed")
    /\ outCtx' = Release(outCtx, outputAudioContextRef, "closed")
    /\ closeReq' = closeReq
    /\ released' = Released
    /\ mediaStreamRef' = Null
    /\ scriptProcessorRef' = Null
    /\ inputAudioContextRef' = Null
    /\ outputAudioContextRef' = Null
    /\ sessionPromiseRef' = Null

\* Mutant of cleanup: the references are not cleared.
cleanup_keepsRefs ==
    /\ stream' = Release(stream, mediaStreamRef, "stopped")
    /\ proc' = Release(proc, scriptProcessorRef, "disconnected")
    /\ inCtx' = Release(inCtx, inputAudioContextRef, "closed")
    /\ outCtx' = Release(outCtx, outputAudioContextRef, "closed")
    /\ closeReq' = Release(closeReq, sessionPromiseRef, TRUE)
    /\ released' = Released
    /\ UNCHANGED refVars

cleanup ==
    /\ stream' = Release(stream, mediaStreamRef, "stopped")
    /\ proc' = Release(proc, scriptProcessorRef, "disconnected")
    /\ inCtx' = Release(inCtx, inputAudioContextRef, "closed")
    /\ outCtx' = Release(outCtx, outputAudioContextRef, "closed")
    /\ closeReq' = Release(closeReq, sessionPromiseRef, TRUE)
    /\ released' = Released
    /\ mediaStreamRef' = Null
    /\ scriptProcessorRef' = Null
    /\ inputAudioContextRef' = Null
    /\ outputAudioContextRef' = Null
    /\ sessionPromiseRef' = Null

\* ------------------------------------------- Conversation: start / stop
\* The error shown when handleStart's try block throws.
StartFailed(reason) == "Failed to start conversation: " \o reason

\* Mutant of handleStart: the credential is not tested.
handleStart_noKeyCheck(hasKey) ==
    IF status # "idle"
    THEN UNCHANGED convVars
    ELSE
        /\ conversation' = <<>>
        /\ currentInputTextRef' = <<>>
        /\ currentOutputTextRef' = <<>>
        /\ nextStartTimeRef' = 0
        /\ epoch' = "start"
        /\ nStarts < MaxStarts
        /\ error' = "null"
        /\ status' = "connecting"
        /\ nStarts' = nStarts + 1
        /\ call' = [call EXCEPT ![nStarts + 1] = "awaitMic"]
        /\ closure' = [closure EXCEPT ![nStarts + 1] = status]
        /\ lang' = [lang EXCEPT ![nStarts + 1] = selectedLanguage]
        /\ UNCHANGED <<refVars, resVars, cancelled, released>>
        /\ UNCHANGED <<audioSourcesRef, currentTime, sources, hist, capVars, mounted,
                     selectedLanguage, systemInstruction>>

\* handleStart up to its first suspension.  hasKey: process.env.API_KEY is set.
\* Without a key the throw is synchronous and the catch block runs in the
\* same step; with one the call suspends on getUserMedia as call k.
handleStart(hasKey) ==
    IF status # "idle"
    THEN UNCHANGED convVars
    ELSE
        /\ conversation' = <<>>
        /\ currentInputTextRef' = <<>>
        /\ currentOutputTextRef' = <<>>
        /\ nextStartTimeRef' = 0
        /\ epoch' = "start"
        /\ IF ~hasKey
           THEN /\ error' = StartFailed("API_KEY environment variable not set.")
                /\ status' = "idle"
                /\ cleanup
                /\ UNCHANGED <<callVars, sess, lang>>
           ELSE /\ nStarts < MaxStarts
                /\ error' = "null"
                /\ status' = "connecting"
                /\ nStarts' = nStarts + 1
                /\ call' = [call EXCEPT ![nStarts + 1] = "awaitMic"]
                /\ closure' = [closure EXCEPT ![nStarts + 1] = status]
                /\ lang' = [lang EXCEPT ![nStarts + 1] = selectedLanguage]
                /\ UNCHANGED <<refVars, resVars, cancelled, released>>
        /\ UNCHANGED <<audioSourcesRef, currentTime, sources, hist, capVars, mounted,
                     selectedLanguage, systemInstruction>>

\* getUserMedia resolved for call k: the rest of the try block.
handleStart_resume(k) ==
    /\ call[k] = "awaitMic"
    /\ call' = [call EXCEPT ![k] = "done"]
    /\ stream' = [stream EXCEPT ![k] = "live"]
    /\ mediaStreamRef' = k
    /\ inCtx' = [inCtx EXCEPT ![k] = "open"]
    /\ inputAudioContextRef' = k
    /\ outCtx' = [outCtx EXCEPT ![k] = "open"]
    /\ outputAudioContextRef' = k
    /\ currentTime' = 0
    /\ sess' = [sess EXCEPT ![k] = "connecting"]
    /\ sessionPromiseRef' = k
    /\ systemInstruction' =
           [systemInstruction EXCEPT ![k] = languageInstruction(lang[k])]
    /\ UNCHANGED <<stateVars, textVars, scriptProcessorRef, proc, closeReq,
                   nextStartTimeRef, audioSourcesRef, sources, epoch, hist,
                   nStarts, closure, cancelled, capVars, selectedLanguage, lang,
                   lifeVars>>

\* getUserMedia rejected for call k with a NotAllowedError, whose message is
\* "Permission denied": the catch block.
handleStart_catch(k) ==
    /\ call[k] = "awaitMic"
    /\ call' = [call EXCEPT ![k] = "failed"]
    /\ error' = StartFailed("Permission denied")
    /\ status' = "idle"
    /\ cleanup
    /\ UNCHANGED <<conversation, textVars, playVars, sess,
                   nStarts, closure, cancelled, capVars, langVars, mounted>>

\* The body of handleStop as seen by a closure whose render had status = seen.
handleStop(seen) ==
    IF seen = "idle"
    THEN UNCHANGED <<status, refVars, stream, inCtx, outCtx, proc, closeReq, released>>
    ELSE cleanup /\ status' = "idle"

\* Calls whose session has not reported open yet.
Starting == {k \in Calls : call[k] = "awaitMic" \/ sess[k] = "connecting"}

\* The Stop button: handleStop of the latest render.
HandleStop ==
    /\ mounted
    /\ handleStop(status)
    /\ cancelled' = IF status = "idle" THEN cancelled ELSE cancelled \cup Starting
    /\ UNCHANGED <<conversation, error, textVars, playVars, sess,
                   nStarts, call, closure, capVars, langVars, mounted, nonConv>>

\* The component is unmounted: the effect's cleanup function runs cleanup.
Unmount ==
    /\ mounted
    /\ mounted' = FALSE
    /\ cleanup
    /\ UNCHANGED <<stateVars, textVars, playVars, sess, callVars, capVars, langVars, nonConv>>

\* The language select: enabled while the status is idle.
onChange(l) ==
    /\ mounted
    /\ status = "idle"
    /\ l # selectedLanguage
    /\ selectedLanguage' = l
    /\ UNCHANGED <<stateVars, refVars, textVars, playVars, resVars, callVars,
                   capVars, lang, systemInstruction, lifeVars>>

SelectLanguage ==
    \E l \in Languages : onChange(l) /\ UNCHANGED nonConv

\* The Start button: handleStart of the latest render.
HandleStart ==
    /\ mounted
    /\ \E hasKey \in BOOLEAN : handleStart(hasKey) /\ UNCHANGED nonConv

MicGranted ==
    \E k \in Calls : handleStart_resume(k) /\ UNCHANGED nonConv

MicDenied ==
    \E k \in Calls : handleStart_catch(k) /\ UNCHANGED nonConv

\* ------------------------------------- Conversation: session callbacks
\* An error event is its message, a text (the empty text when the event has
\* none).  Sample messages are pairs of the fragments below, which carry the
\* keywords in several letter cases, whole and in parts.
Fragments ==
    { <<>>,
      <<"x">>,
      <<"U", "n", "a", "v", "a", "i", "l", "a", "b", "l", "e">>,
      <<"I", "N", "T", "E", "R", "N", "A", "L", " ", "E", "R", "R", "O", "R">>,
      <<"i", "n", "t", "e", "r", "n", "a", "l">>,
      <<" ", "e", "r", "r", "o", "r">>,
      <<"M", "i", "c", "r", "o", "P", "h", "o", "n", "e">> }

ErrorEvents == { a \o b : a \in Fragments, b \in Fragments }

\* The events of the lifecycle specification: one with no keyword, one with
\* the first.
LifeErrors == { <<"x">>, <<"U", "n", "a", "v", "a", "i", "l", "a", "b", "l", "e">> }

Upper ==
    <<"A", "B", "C", "D", "E", "F", "G", "H", "I", "J", "K", "L", "M">> \o
    <<"N", "O", "P", "Q", "R", "S", "T", "U", "V", "W", "X", "Y", "Z">>
Lower ==
    <<"a", "b", "c", "d", "e", "f", "g", "h", "i", "j", "k", "l", "m">> \o
    <<"n", "o", "p", "q", "r", "s", "t", "u", "v", "w", "x", "y", "z">>

\* Mutant of toLowerCase: the text is left as it is.
toLowerCase_asIs(t) == t

\* String.prototype.toLowerCase
toLowerCase(t) ==
    [i \in 1..Len(t) |->
        IF \E n \in 1..Len(Upper) : Upper[n] = t[i]
        THEN Lower[CHOOSE n \in 1..Len(Upper) : Upper[n] = t[i]]
        ELSE t[i]]

\* String.prototype.includes
includes(t, w) ==
    \E i \in 0..(Len(t) - Len(w)) : SubSeq(t, i + 1, i + Len(w)) = w

\* (e as ErrorEvent).message || (e as any).toString()
ObjectString == <<"[", "o", "b", "j", "e", "c", "t", " ", "E", "v", "e", "n", "t", "]">>
message(e) == IF e # <<>> THEN e ELSE ObjectString

\* The four user messages of onerror.
ServiceUnavailable ==
    "The conversation service is temporarily unavailable. Please wait a moment and try again."
InternalError ==
    "An internal error occurred with the service. Please try starting the conversation again."
CheckPermissions ==
    "Could not access the microphone. Please check your browser permissions."
TryAgain ==
    "An error occurred during the conversation. Please try again."

\* onerror's choice of the user message.
userMessage(e) ==
    LET lower == toLowerCase(message(e)) IN
    IF includes(lower, <<"u", "n", "a", "v", "a", "i", "l", "a", "b", "l", "e">>)
    THEN ServiceUnavailable
    ELSE IF includes(lower, <<"i", "n", "t", "e", "r", "n", "a", "l", " ", "e", "r", "r", "o", "r">>)
    THEN InternalError
    ELSE IF includes(lower, <<"m", "i", "c", "r", "o", "p", "h", "o", "n", "e">>)
    THEN CheckPermissions
    ELSE TryAgain

\* The session of call k reports open.  The connect promise resolves right
\* after the callback, so a close requested meanwhile is carried out then
\* (the session stays "open" with closeReq set until its close event), and
\* the sends that were waiting for the promise are issued in the order in
\* which they were registered.
onopen(k) ==
    /\ sess[k] = "connecting"
    /\ sess' = [sess EXCEPT ![k] = "open"]
    /\ status' = "listening"
    /\ IF inputAudioContextRef = Null \/ mediaStreamRef = Null
       THEN UNCHANGED <<proc, scriptProcessorRef>>
       ELSE /\ proc' = [proc EXCEPT ![k] = "connected"]
            /\ scriptProcessorRef' = k
    /\ sent' = sent \o pend[k]
    /\ pend' = [pend EXCEPT ![k] = <<>>]
    /\ opened' = opened \cup {k}
    /\ UNCHANGED <<conversation, error, textVars, playVars, callVars,
                   sessionPromiseRef, inputAudioContextRef, outputAudioContextRef,
                   mediaStreamRef, stream, inCtx, outCtx, closeReq,
                   captured, langVars, lifeVars>>

\* Mutant of onerror: the session is connected again.
onerror_reconnects(k, e) ==
    /\ sess[k] \in {"connecting", "open"}
    /\ sess' = [sess EXCEPT ![k] = "connecting"]
    /\ error' = userMessage(e)
    /\ handleStop(closure[k])
    /\ UNCHANGED <<conversation, textVars, playVars, callVars, capVars, langVars, mounted>>

\* The session of call k reports an error with description e; its transport
\* is broken from then on.  The handleStop called is the one of call k's render.
onerror(k, e) ==
    /\ sess[k] \in {"connecting", "open"}
    /\ sess' = [sess EXCEPT ![k] = "errored"]
    /\ error' = userMessage(e)
    /\ handleStop(closure[k])
    /\ UNCHANGED <<conversation, textVars, playVars, callVars, capVars, langVars, mounted>>

\* The session of call k reports closed (by the remote side, after an error,
\* or after a requested close).
onclose(k) ==
    /\ sess[k] \in {"connecting", "open", "errored"}
    /\ sess' = [sess EXCEPT ![k] = "closed"]
    /\ status' = "idle"
    /\ UNCHANGED <<conversation, error, refVars, textVars, playVars, callVars,
                   stream, inCtx, outCtx, proc, closeReq, capVars, langVars, lifeVars>>

SessionOpen ==
    \E k \in Calls : onopen(k) /\ UNCHANGED nonConv

SessionError ==
    \E k \in Calls, e \in LifeErrors : onerror(k, e) /\ UNCHANGED nonConv

SessionClose ==
    \E k \in Calls : onclose(k) /\ UNCHANGED nonConv

\* ------------------------------------------- Conversation: capture
\* Sample capture blocks: one sample each, 0 and 1/2.
Blocks == { <<0>>, <<Int16Scale>> }

\* Mutant of Enqueue: the new callback runs before the earlier ones.
Enqueue_front(q, x) == <<x>> \o q

\* promise.then(callback): callbacks run in the order of registration.
Enqueue(q, x) == Append(q, x)

\* onaudioprocess of the processor created by onopen of session k, for one
\* block.  The send is registered on the promise sessionPromiseRef holds at
\* that moment: it is issued at once when the promise is resolved and waits
\* for onopen when it is not.  On a session that is broken or closed the
\* promise is resolved when the session had opened, and never otherwise.
onaudioprocess(k, inputData) ==
    /\ proc[k] = "connected"
    /\ captured < MaxBlocks
    /\ captured' = captured + 1
    /\ LET send == [block |-> captured + 1, data |-> createBlob(inputData),
                    session |-> sessionPromiseRef, delivered |-> FALSE]
       IN  IF sessionPromiseRef = Null
           THEN UNCHANGED <<sent, pend>>
           ELSE IF sess[sessionPromiseRef] = "connecting"
           THEN /\ pend' = [pend EXCEPT ![sessionPromiseRef] = Enqueue(@, send)]
                /\ sent' = sent
           ELSE IF sessionPromiseRef \in opened
           THEN /\ sent' = Enqueue(sent, send)
                /\ pend' = pend
           ELSE UNCHANGED <<sent, pend>>
    /\ UNCHANGED <<stateVars, refVars, textVars, playVars, resVars, callVars,
                   opened, langVars, lifeVars>>

\* The transport finishes the delivery of a send, in no particular order.
delivered(i) ==
    /\ ~sent[i].delivered
    /\ sess[sent[i].session] = "open"
    /\ sent' = [sent EXCEPT ![i].delivered = TRUE]
    /\ UNCHANGED <<stateVars, refVars, textVars, playVars, resVars, callVars,
                   captured, pend, opened, langVars, lifeVars>>

AudioProcess ==
    \E k \in Calls, d \in Blocks : onaudioprocess(k, d) /\ UNCHANGED nonConv

SendDelivered ==
    \E i \in 1..Len(sent) : delivered(i) /\ UNCHANGED nonConv

\* ------------------------------------------- Conversation: onmessage
\* A server message: optional input and output transcription texts, an
\* optional audio chunk (audio = its duration, 0 when there is none), and
\* the interrupted and turnComplete flags.
Message(i, o, a, x, t) ==
    [input |-> i, output |-> o, audio |-> a, interrupted |-> x, turnComplete |-> t]

\* What the handler reads and writes, as one record it passes from block to block.
Handled ==
    [input |-> currentInputTextRef, output |-> currentOutputTextRef,
     status |-> status, conversation |-> conversation,
     nextStartTime |-> nextStartTimeRef, audioSources |-> audioSourcesRef,
     sources |-> sources]

\* Mutant of onTranscription: partial texts are concatenated.
onTranscription_appends(h, m) ==
    [h EXCEPT
        !.input = IF m.input # Absent THEN @ \o m.input[1] ELSE @,
        !.output = IF m.output # Absent THEN @ \o m.output[1] ELSE @,
        !.status = IF m.output # Absent THEN "thinking" ELSE @]

\* if (serverContent?.inputTranscription) / if (serverContent?.outputTranscription)
onTranscription(h, m) ==
    [h EXCEPT
        !.input = IF m.input # Absent THEN m.input[1] ELSE @,
        !.output = IF m.output # Absent THEN m.output[1] ELSE @,
        !.status = IF m.output # Absent THEN "thinking" ELSE @]

Max(a, b) == IF a >= b THEN a ELSE b

\* Mutant of startTime: the watermark is ignored.
startTime_ignoresWatermark(now, h) == now

\* const startTime = Math.max(currentTime, nextStartTimeRef.current)
startTime(now, h) == Max(now, h.nextStartTime)

\* The chunk is scheduled when there is audio and an output context.
Schedules(m) == m.audio > 0 /\ outputAudioContextRef # Null

\* if (base64Audio && outputAudioContextRef.current): decode, create the
\* source, start it at startTime, advance the watermark, add it to the set.
onAudio(h, m) ==
    IF Schedules(m)
    THEN [h EXCEPT
            !.sources = Append(@, [start |-> startTime(currentTime, h),
                                   dur |-> m.audio, state |-> "scheduled",
                                   ctx |-> outputAudioContextRef]),
            !.nextStartTime = startTime(currentTime, h) + m.audio,
            !.audioSources = @ \cup {Len(h.sources) + 1}]
    ELSE h

\* source.stop() for every source of the set
StopAll(srcs, set) ==
    [i \in 1..Len(srcs) |->
        IF i \in set THEN [srcs[i] EXCEPT !.state = "stopped"] ELSE srcs[i]]

\* Mutant of onInterrupted: the watermark is not reset.
onInterrupted_keepsWatermark(h, m) ==
    IF m.interrupted
    THEN [h EXCEPT
            !.sources = StopAll(@, h.audioSources),
            !.audioSources = {}]
    ELSE h

\* if (serverContent?.interrupted)
onInterrupted(h, m) ==
    IF m.interrupted
    THEN [h EXCEPT
            !.sources = StopAll(@, h.audioSources),
            !.audioSources = {},
            !.nextStartTime = 0]
    ELSE h

\* Mutant of Commits: both texts must be non-empty.
Commits_both(h) == Trim(h.input) # <<>> /\ Trim(h.output) # <<>>

\* The turn is committed when either trimmed text is non-empty.
Commits(h) == Trim(h.input) # <<>> \/ Trim(h.output) # <<>>

\* Mutant of onTurnComplete: an entry whose text is empty is left out.
onTurnComplete_skipsEmpty(h, m) ==
    IF m.turnComplete
    THEN [h EXCEPT
            !.conversation =
                @ \o (IF Trim(h.input) # <<>>
                      THEN << [role |-> "user", text |-> Trim(h.input)] >>
                      ELSE <<>>)
                  \o (IF Trim(h.output) # <<>>
                      THEN << [role |-> "model", text |-> Trim(h.output)] >>
                      ELSE <<>>),
            !.input = <<>>,
            !.output = <<>>,
            !.status = "listening"]
    ELSE h

\* Mutant of onTurnComplete: the end of a turn also empties the active set.
onTurnComplete_clears(h, m) ==
    IF m.turnComplete
    THEN [h EXCEPT
            !.conversation =
                IF Commits(h)
                THEN @ \o << [role |-> "user", text |-> Trim(h.input)],
                             [role |-> "model", text |-> Trim(h.output)] >>
                ELSE @,
            !.input = <<>>,
            !.output = <<>>,
            !.audioSources = {},
            !.status = "listening"]
    ELSE h

\* if (serverContent?.turnComplete)
onTurnComplete(h, m) ==
    IF m.turnComplete
    THEN [h EXCEPT
            !.conversation =
                IF Commits(h)
                THEN @ \o << [role |-> "user", text |-> Trim(h.input)],
                             [role |-> "model", text |-> Trim(h.output)] >>
                ELSE @,
            !.input = <<>>,
            !.output = <<>>,
            !.status = "listening"]
    ELSE h

\* The whole handler.  decodeAudioData contains no await of its own, so the
\* handler's continuation after `await decodeAudioData(...)` runs before any
\* other callback: the handler is one step.  (onmessage_await and
\* onmessage_resume below are the same handler in its two halves.)
handled(m) ==
    onTurnComplete(onInterrupted(onAudio(onTranscription(Handled, m), m), m), m)

onmessage(k, m) ==
    /\ sess[k] = "open"
    /\ Schedules(m) => Len(sources) < MaxChunks
    /\ LET h == handled(m) IN
        /\ Len(h.conversation) <= 2 * MaxTurns
        /\ currentInputTextRef' = h.input
        /\ currentOutputTextRef' = h.output
        /\ status' = h.status
        /\ conversation' = h.conversation
        /\ nextStartTimeRef' = h.nextStartTime
        /\ audioSourcesRef' = h.audioSources
        /\ sources' = h.sources
    /\ hist' = IF Schedules(m)
               THEN Append(hist, [at |-> currentTime, after |-> epoch,
                                  prev |-> IF epoch = "chunk" THEN Len(sources) ELSE 0])
               ELSE hist
    /\ epoch' = IF m.interrupted THEN "interrupted"
                ELSE IF Schedules(m) THEN "chunk" ELSE epoch
    /\ UNCHANGED <<error, refVars, resVars, callVars, currentTime, capVars, langVars, lifeVars>>

\* ---------------------------------- onmessage across its suspension
\* Mutant of awaitDecodeAudioData: the promise settles in a later task, as the
\* promise of the context's own decoder does.
awaitDecodeAudioData_later(k, m) ==
    [call |-> k, message |-> m, settled |-> FALSE, overtaken |-> FALSE]

\* await decodeAudioData(...): the async function awaits nothing, so the
\* promise it returns is settled when the handler awaits it, and the
\* continuation is a job that is ready at once.
awaitDecodeAudioData(k, m) ==
    [call |-> k, message |-> m, settled |-> TRUE, overtaken |-> FALSE]

\* A task (a session event, a click, a timer) is taken from the event loop
\* only when no ready job is left.
LoopIdle == \A i \in DOMAIN microtasks : ~microtasks[i].settled

\* History: the waiting continuations have been overtaken by an interruption.
Overtaken(jobs, m) ==
    [i \in DOMAIN jobs |-> [jobs[i] EXCEPT !.overtaken = @ \/ m.interrupted]]

\* onmessage from its entry to `await decodeAudioData(...)`, for a message
\* whose chunk is to be scheduled.
onmessage_await(k, m) ==
    /\ sess[k] = "open"
    /\ Schedules(m)
    /\ Len(sources) + Len(microtasks) < MaxChunks
    /\ LET h == onTranscription(Handled, m) IN
        /\ currentInputTextRef' = h.input
        /\ currentOutputTextRef' = h.output
        /\ status' = h.status
    /\ microtasks' = Append(microtasks, awaitDecodeAudioData(k, m))
    /\ UNCHANGED <<conversation, error, refVars, playVars, resVars, callVars,
                   capVars, langVars, lifeVars>>

\* onmessage from the await to its end.  If the output context is gone by
\* then, createBufferSource throws on null and the rest is skipped.
onmessage_resume ==
    /\ microtasks # <<>>
    /\ LET m == Head(microtasks).message
           h == onTurnComplete(onInterrupted(onAudio(Handled, m), m), m)
       IN  IF outputAudioContextRef = Null
           THEN /\ microtasks' = Tail(microtasks)
                /\ UNCHANGED <<stateVars, textVars, playVars>>
           ELSE /\ Len(h.conversation) <= 2 * MaxTurns
                /\ currentInputTextRef' = h.input
                /\ currentOutputTextRef' = h.output
                /\ status' = h.status
                /\ conversation' = h.conversation
                /\ nextStartTimeRef' = h.nextStartTime
                /\ audioSourcesRef' = h.audioSources
                /\ sources' = h.sources
                /\ hist' = Append(hist,
                       [at |-> currentTime, after |-> epoch,
                        prev |-> IF epoch = "chunk" THEN Len(sources) ELSE 0])
                /\ epoch' = IF m.interrupted THEN "interrupted" ELSE "chunk"
                /\ microtasks' = Overtaken(Tail(microtasks), m)
                /\ UNCHANGED <<error, currentTime>>
    /\ UNCHANGED <<refVars, resVars, callVars, capVars, langVars, lifeVars>>

\* ------------------------------------------------ the playback device
\* The output context's clock advances while the context is held open.
Tick ==
    /\ outputAudioContextRef # Null
    /\ currentTime < MaxClock
    /\ currentTime' = currentTime + 1
    /\ UNCHANGED <<stateVars, refVars, textVars, resVars, callVars,
                   nextStartTimeRef, audioSourcesRef, sources, epoch, hist,
                   capVars, langVars, lifeVars, nonConv>>

\* Mutant of onended: the source does not remove itself from the set.
onended_keeps(i) ==
    /\ outCtx[sources[i].ctx] = "open"
    /\ sources[i].state = "scheduled"
    /\ sources[i].start + sources[i].dur <= currentTime
    /\ sources' = [sources EXCEPT ![i].state = "ended"]
    /\ UNCHANGED <<stateVars, refVars, textVars, resVars, callVars, audioSourcesRef,
                   nextStartTimeRef, currentTime, epoch, hist, capVars, langVars, lifeVars>>

\* source.onended = () => audioSourcesRef.current.delete(source): the source
\* played to its end, or was stopped (and stays "stopped").  A source of a
\* closed context neither plays nor reports its end.
onended(i) ==
    /\ outCtx[sources[i].ctx] = "open"
    /\ \/ sources[i].state = "scheduled"
          /\ sources[i].start + sources[i].dur <= currentTime
       \/ sources[i].state = "stopped"
    /\ sources' = IF sources[i].state = "scheduled"
                  THEN [sources EXCEPT ![i].state = "ended"]
                  ELSE sources
    /\ audioSourcesRef' = audioSourcesRef \ {i}
    /\ UNCHANGED <<stateVars, refVars, textVars, resVars, callVars,
                   nextStartTimeRef, currentTime, epoch, hist, capVars, langVars, lifeVars>>

SourceEnded ==
    \E i \in 1..Len(sources) : onended(i) /\ UNCHANGED nonConv

\* -------------------------------------------------------- specifications
Option(S) == {Absent} \cup {Some(v) : v \in S}

\* Every message shape, over the sample texts and durations.
Messages ==
    { Message(i, o, a, x, t) :
        i \in Option(Texts), o \in Option(Texts), a \in 0..MaxDur,
        x \in BOOLEAN, t \in BOOLEAN }

\* Messages of the lifecycle specification: the two that move the status (a
\* blank output partial, so that the turn that follows commits nothing).
LifeMessages ==
    { Message(Absent, Some(<<" ">>), 0, FALSE, FALSE),
      Message(Absent, Absent, 0, FALSE, TRUE) }

\* The controller's lifecycle: start, stop and every session event.
ServerMessage ==
    \E k \in Calls, m \in LifeMessages :
        /\ onmessage(k, m)
        /\ UNCHANGED nonConv

Next ==
    \/ HandleStart
    \/ MicGranted
    \/ MicDenied
    \/ HandleStop
    \/ SessionOpen
    \/ SessionError
    \/ SessionClose
    \/ ServerMessage

Spec == Init /\ [][Next]_vars


\* The playback scheduler within one session: audio chunks and interruptions
\* arriving while the clock runs and sources end.
PlayMessages ==
    { m \in Messages : m.input = Absent /\ m.output = Absent /\ ~m.turnComplete }

AudioMessage ==
    \E k \in Calls, m \in PlayMessages : onmessage(k, m) /\ UNCHANGED nonConv

NextPlay ==
    \/ HandleStart
    \/ MicGranted
    \/ SessionOpen
    \/ AudioMessage
    \/ Tick
    \/ SourceEnded

SpecPlay == Init /\ [][NextPlay]_vars

\* The playback scheduler across stop() and a new start(), with the clock
\* standing still: every source scheduled is still to play.
NextPlayStop ==
    \/ HandleStart
    \/ MicGranted
    \/ SessionOpen
    \/ AudioMessage
    \/ HandleStop

SpecPlayStop == Init /\ [][NextPlayStop]_vars

\* The handler across its suspension, within one session and with the clock
\* standing still: chunks and interruptions delivered one task each, the
\* continuations run as jobs.
DecodeAwait ==
    \E k \in Calls, m \in PlayMessages :
        LoopIdle /\ onmessage_await(k, m) /\ UNCHANGED nonLoop

DecodeResume == onmessage_resume /\ UNCHANGED nonLoop

\* A message with no chunk to schedule: the handler does not suspend.
DecodeNone ==
    \E k \in Calls, m \in PlayMessages :
        /\ LoopIdle
        /\ ~Schedules(m)
        /\ onmessage(k, m)
        /\ microtasks' = Overtaken(microtasks, m)
        /\ UNCHANGED nonLoop

NextDecode ==
    \/ LoopIdle /\ HandleStart
    \/ LoopIdle /\ MicGranted
    \/ LoopIdle /\ SessionOpen
    \/ DecodeAwait
    \/ DecodeResume
    \/ DecodeNone

SpecDecode == Init /\ [][NextDecode]_vars

\* Teardown: stop(), failed starts, session closes and the unmount, in any
\* order.
NextTeardown ==
    \/ HandleStart
    \/ MicGranted
    \/ MicDenied
    \/ SessionOpen
    \/ SessionClose
    \/ HandleStop
    \/ Unmount

SpecTeardown == Init /\ [][NextTeardown]_vars

\* The active set against every event of the controller: one-unit chunks and
\* interruptions among starts, stops, transcripts, turn ends, errors and
\* closes, with the clock standing still.  The session events are those of
\* the session the controller holds.
FrameMessages ==
    LifeMessages \cup
        { Message(Absent, Absent, 1, FALSE, FALSE),
          Message(Absent, Absent, 0, TRUE, FALSE) }

Held(k) == k = sessionPromiseRef

HeldOpen ==
    \E k \in Calls : Held(k) /\ onopen(k) /\ UNCHANGED nonConv

\* One error event, with a description that names no cause.
HeldError ==
    \E k \in Calls : Held(k) /\ onerror(k, <<"x">>) /\ UNCHANGED nonConv

HeldClose ==
    \E k \in Calls : Held(k) /\ onclose(k) /\ UNCHANGED nonConv

FrameMessage ==
    \E k \in Calls, m \in FrameMessages :
        /\ Held(k)
        /\ Schedules(m) => Len(sources) < MaxFrameChunks
        /\ onmessage(k, m)
        /\ UNCHANGED nonConv

NextFrame ==
    \/ HandleStart
    \/ MicGranted
    \/ HandleStop
    \/ HeldOpen
    \/ HeldError
    \/ HeldClose
    \/ FrameMessage

SpecFrame == Init /\ [][NextFrame]_vars

\* Events of a session that was told to close: the three messages that can
\* still be delivered (an output partial, a turn end, an audio chunk) among
\* starts, stops, opens and closes.
LateMessages ==
    { Message(Absent, Some(<<" ", "a">>), 0, FALSE, FALSE),
      Message(Absent, Absent, 0, FALSE, TRUE),
      Message(Absent, Absent, 1, FALSE, FALSE) }

LateMessage ==
    \E k \in Calls, m \in LateMessages : onmessage(k, m) /\ UNCHANGED nonConv

NextLate ==
    \/ HandleStart
    \/ MicGranted
    \/ SessionOpen
    \/ LateMessage
    \/ HandleStop
    \/ SessionClose

SpecLate == Init /\ [][NextLate]_vars

\* The conversation log against every event that writes it: partials of both
\* roles and turn ends, of the session held and of sessions stopped before,
\* among starts, opens and stops of a conversation under way.
LogMessages ==
    { Message(Some(<<"b", " ", "c", " ">>), Absent, 0, FALSE, FALSE),
      Message(Absent, Some(<<" ", "a">>), 0, FALSE, FALSE),
      Message(Absent, Absent, 0, FALSE, TRUE),
      Message(Some(<<" ">>), Some(<<" ", "a">>), 0, FALSE, TRUE) }

LogMessage ==
    \E k \in Calls, m \in LogMessages : onmessage(k, m) /\ UNCHANGED nonConv

StopConversation == status \in {"listening", "thinking"} /\ HandleStop

NextLog ==
    \/ HandleStart
    \/ MicGranted
    \/ SessionOpen
    \/ LogMessage
    \/ StopConversation

SpecLog == Init /\ [][NextLog]_vars

\* The language of the session: the select among starts, stops, opens and
\* closes.
NextLang ==
    \/ SelectLanguage
    \/ HandleStart
    \/ MicGranted
    \/ SessionOpen
    \/ SessionClose
    \/ HandleStop

SpecLang == Init /\ [][NextLang]_vars

\* Capture against the life of the session: blocks captured while sessions
\* open, break, close and are torn down.
NextWire ==
    \/ HandleStart
    \/ MicGranted
    \/ SessionOpen
    \/ SessionError
    \/ SessionClose
    \/ AudioProcess
    \/ HandleStop
    \/ Unmount

SpecWire == Init /\ [][NextWire]_vars

\* The capture pipeline: blocks captured and sent while sessions start, open,
\* close and are stopped.
NextCap ==
    \/ HandleStart
    \/ MicGranted
    \/ SessionOpen
    \/ SessionClose
    \/ AudioProcess
    \/ SendDelivered

SpecCap == Init /\ [][NextCap]_vars

\* The error classifier: every sample error event, on a session at any point
\* of its life.
ErrorEvent ==
    \E k \in Calls, e \in ErrorEvents : onerror(k, e) /\ UNCHANGED nonConv

NextErr ==
    \/ HandleStart
    \/ MicGranted
    \/ MicDenied
    \/ SessionOpen
    \/ SessionClose
    \/ ErrorEvent

SpecErr == Init /\ [][NextErr]_vars

\* The turn aggregator within one session: transcripts and turn boundaries.
TurnMessages ==
    { m \in Messages : m.audio = 0 /\ ~m.interrupted }

TurnMessage ==
    \E k \in Calls, m \in TurnMessages : onmessage(k, m) /\ UNCHANGED nonConv

NextTurn ==
    \/ HandleStart
    \/ MicGranted
    \/ SessionOpen
    \/ TurnMessage

SpecTurn == Init /\ [][NextTurn]_vars


\* ======================================================= AudioTranscriber
recCleanup ==
    /\ recStream' = Release(recStream, recMediaStreamRef, "stopped")
    /\ recProc' = Release(recProc, recScriptProcessorRef, "disconnected")
    /\ recCtx' = IF audioContextRef # Null /\ recCtx[audioContextRef] # "closed"
                 THEN [recCtx EXCEPT ![audioContextRef] = "closed"]
                 ELSE recCtx
    /\ audioContextRef' = IF audioContextRef # Null /\ recCtx[audioContextRef] # "closed"
                          THEN Null
                          ELSE audioContextRef
    /\ recCloseReq' = Release(recCloseReq, recSessionPromiseRef, TRUE)
    /\ recMediaStreamRef' = Null
    /\ recScriptProcessorRef' = Null
    /\ recSessionPromiseRef' = Null

RecordingFailed(reason) == "Failed to start recording: " \o reason

\* handleStartRecording up to its first suspension.
handleStartRecording(hasKey) ==
    IF isRecording
    THEN UNCHANGED recVars
    ELSE
        /\ transcription' = <<>>
        /\ interimTranscript' = <<>>
        /\ currentTurnTextRef' = <<>>
        /\ IF ~hasKey
           THEN /\ recError' = RecordingFailed("API_KEY environment variable not set.")
                /\ isRecording' = FALSE
                /\ recCleanup
                /\ UNCHANGED <<recCallVars, recSess>>
           ELSE /\ recStarts < MaxStarts
                /\ recError' = "null"
                /\ isRecording' = TRUE
                /\ recStarts' = recStarts + 1
                /\ recCall' = [recCall EXCEPT ![recStarts + 1] = "awaitMic"]
                /\ recClosure' = [recClosure EXCEPT ![recStarts + 1] = isRecording]
                /\ UNCHANGED <<recRefVars, recResVars>>

\* getUserMedia resolved for call k.
handleStartRecording_resume(k) ==
    /\ recCall[k] = "awaitMic"
    /\ recCall' = [recCall EXCEPT ![k] = "done"]
    /\ recStream' = [recStream EXCEPT ![k] = "live"]
    /\ recMediaStreamRef' = k
    /\ recCtx' = [recCtx EXCEPT ![k] = "open"]
    /\ audioContextRef' = k
    /\ recSess' = [recSess EXCEPT ![k] = "connecting"]
    /\ recSessionPromiseRef' = k
    /\ UNCHANGED <<recStateVars, currentTurnTextRef, recScriptProcessorRef,
                   recProc, recCloseReq, recStarts, recClosure>>

\* getUserMedia rejected for call k.
handleStartRecording_catch(k) ==
    /\ recCall[k] = "awaitMic"
    /\ recCall' = [recCall EXCEPT ![k] = "failed"]
    /\ recError' = RecordingFailed("Permission denied")
    /\ isRecording' = FALSE
    /\ recCleanup
    /\ UNCHANGED <<transcription, interimTranscript, currentTurnTextRef,
                   recSess, recStarts, recClosure>>

\* The body of handleStopRecording as seen by a closure whose render had
\* isRecording = seen.
handleStopRecording(seen) ==
    IF ~seen
    THEN UNCHANGED <<isRecording, recRefVars, recStream, recCtx, recProc, recCloseReq>>
    ELSE recCleanup /\ isRecording' = FALSE

recOnopen(k) ==
    /\ recSess[k] = "connecting"
    /\ recSess' = [recSess EXCEPT ![k] = "open"]
    /\ IF audioContextRef = Null \/ recMediaStreamRef = Null
       THEN UNCHANGED <<recProc, recScriptProcessorRef>>
       ELSE /\ recProc' = [recProc EXCEPT ![k] = "connected"]
            /\ recScriptProcessorRef' = k
    /\ UNCHANGED <<recStateVars, currentTurnTextRef, recCallVars,
                   recSessionPromiseRef, audioContextRef, recMediaStreamRef,
                   recStream, recCtx, recCloseReq>>

\* Mutant of AppendLine: no line break between turns.
AppendLine_noBreak(prev, line) == prev \o line

\* setTranscription(prev => `${prev}${prev ? '\n' : ''}${finalTurnText}`)
AppendLine(prev, line) ==
    prev \o (IF prev # <<>> THEN <<"\n">> ELSE <<>>) \o line

\* The turn buffer after the message's partial text, if it has one.
recPartial(m) ==
    IF m.input # Absent THEN m.input[1] ELSE currentTurnTextRef

recOnmessage(k, m) ==
    /\ recSess[k] = "open"
    /\ IF m.turnComplete
       THEN /\ transcription' =
                   IF Trim(recPartial(m)) # <<>>
                   THEN AppendLine(transcription, Trim(recPartial(m)))
                   ELSE transcription
            /\ currentTurnTextRef' = <<>>
            /\ interimTranscript' = <<>>
       ELSE /\ transcription' = transcription
            /\ currentTurnTextRef' = recPartial(m)
            /\ interimTranscript' =
                   IF m.input # Absent THEN m.input[1] ELSE interimTranscript
    /\ UNCHANGED <<isRecording, recError, recRefVars, recResVars, recCallVars>>

recOnerror(k) ==
    /\ recSess[k] \in {"connecting", "open"}
    /\ recSess' = [recSess EXCEPT ![k] = "errored"]
    /\ recError' = "An error occurred with the live session. Please try again."
    /\ handleStopRecording(recClosure[k])
    /\ UNCHANGED <<transcription, interimTranscript, currentTurnTextRef, recCallVars>>

\* onclose only logs.
recOnclose(k) ==
    /\ recSess[k] \in {"connecting", "open", "errored"}
    /\ recSess' = [recSess EXCEPT ![k] = "closed"]
    /\ UNCHANGED <<recStateVars, recRefVars, currentTurnTextRef, recCallVars,
                   recStream, recCtx, recProc, recCloseReq>>

StartRecording ==
    \E hasKey \in BOOLEAN : handleStartRecording(hasKey) /\ UNCHANGED nonRec

RecMicGranted ==
    \E k \in Calls : handleStartRecording_resume(k) /\ UNCHANGED nonRec

RecMicDenied ==
    \E k \in Calls : handleStartRecording_catch(k) /\ UNCHANGED nonRec

\* The Stop button: handleStopRecording of the latest render.
StopRecording ==
    /\ handleStopRecording(isRecording)
    /\ UNCHANGED <<transcription, interimTranscript, recError, currentTurnTextRef,
                   recSess, recCallVars, nonRec>>

RecSessionOpen ==
    \E k \in Calls : recOnopen(k) /\ UNCHANGED nonRec

RecSessionError ==
    \E k \in Calls : recOnerror(k) /\ UNCHANGED nonRec

RecSessionClose ==
    \E k \in Calls : recOnclose(k) /\ UNCHANGED nonRec

\* Lines of a transcript.
RECURSIVE Lines(_)
Lines(t) ==
    IF t = <<>> THEN 0
    ELSE IF \E i \in 1..Len(t) : t[i] = "\n"
    THEN 1 + Lines(SubSeq(t, 1 + CHOOSE i \in 1..Len(t) : t[i] = "\n", Len(t)))
    ELSE 1

\* The transcriber's lifecycle, with one partial text and the turn boundary.
RecLifeMessages ==
    { Message(Some(<<" ", "a">>), Absent, 0, FALSE, FALSE),
      Message(Absent, Absent, 0, FALSE, TRUE) }

RecServerMessage ==
    \E k \in Calls, m \in RecLifeMessages :
        /\ recOnmessage(k, m)
        /\ Lines(transcription') <= MaxTurns
        /\ UNCHANGED nonRec

NextRec ==
    \/ StartRecording
    \/ RecMicGranted
    \/ RecMicDenied
    \/ StopRecording
    \/ RecSessionOpen
    \/ RecSessionError
    \/ RecSessionClose
    \/ RecServerMessage

SpecRec == Init /\ [][NextRec]_vars

\* The transcriber's turn buffer and transcript, across stop and restart.
RecTurnMessages ==
    { m \in TurnMessages : m.output = Absent }

RecTurnMessage ==
    \E k \in Calls, m \in RecTurnMessages :
        /\ recOnmessage(k, m)
        /\ Lines(transcription') <= MaxTurns
        /\ UNCHANGED nonRec

NextRecTurn ==
    \/ StartRecording
    \/ RecMicGranted
    \/ RecSessionOpen
    \/ StopRecording
    \/ RecTurnMessage

SpecRecTurn == Init /\ [][NextRecTurn]_vars

\* --------------------------------------------------------- the PCM codec
\* Samples at and next to the ends and the middle of [-1, 1].
Samples ==
    ((-SampleDen)..(MaxEdge - SampleDen))
        \cup ((-MaxEdge)..MaxEdge)
        \cup ((SampleDen - MaxEdge)..SampleDen)

\* One sample is about to be encoded.
InitCodec ==
    /\ InitComponents
    /\ codec \in {[stage |-> "sample", s |-> n, blob |-> <<>>, out |-> <<>>] :
                    n \in Samples}
    /\ wav = NoPayload

\* The sample goes through createBlob.
Encode ==
    /\ codec.stage = "sample"
    /\ codec' = [codec EXCEPT !.stage = "encoded", !.blob = createBlob(<<codec.s>>)]
    /\ UNCHANGED nonCodec

\* The payload goes through decode and decodeAudioData.
Decode ==
    /\ codec.stage = "encoded"
    /\ codec' = [codec EXCEPT !.stage = "decoded",
                              !.out = decodeAudioData(decode(codec.blob))]
    /\ UNCHANGED nonCodec

NextCodec ==
    \/ Encode
    \/ Decode

SpecCodec == InitCodec /\ [][NextCodec]_vars

\* ------------------------------------------------------ TTS: createWavUrl
\* string.charCodeAt(i) for the characters of the chunk tags.
charCodeAt(c) ==
    IF c = " " THEN 32
    ELSE IF \E n \in 1..Len(Upper) : Upper[n] = c
         THEN 64 + (CHOOSE n \in 1..Len(Upper) : Upper[n] = c)
         ELSE 96 + (CHOOSE n \in 1..Len(Lower) : Lower[n] = c)

\* The bytes a DataView write puts at its offset.
writeString(string) == [i \in 1..Len(string) |-> charCodeAt(string[i])]

setUint16(value) == << value % 256, (value \div 256) % 256 >>

\* Mutant of setUint32: the bytes are written most significant first.
setUint32_bigEndian(value) ==
    << (value \div 16777216) % 256, (value \div 65536) % 256,
       (value \div 256) % 256, value % 256 >>

\* view.setUint32(offset, value, true): least significant byte first.
setUint32(value) ==
    << value % 256, (value \div 256) % 256,
       (value \div 65536) % 256, (value \div 16777216) % 256 >>

\* The buffer after `bytes` are written from byte offset `offset` on.
Put(buffer, offset, bytes) ==
    [i \in 1..Len(buffer) |->
        IF i > offset /\ i <= offset + Len(bytes) THEN bytes[i - offset]
        ELSE buffer[i]]

\* createWavUrl: the bytes of the Blob behind the object URL it returns.
createWavUrl(base64PcmData) ==
    LET pcmData == decode(base64PcmData)
        sampleRate == 24000
        numChannels == 1
        bitsPerSample == 16
        dataSize == Len(pcmData)
        blockAlign == (numChannels * bitsPerSample) \div 8
        byteRate == sampleRate * blockAlign
        b0 == [i \in 1..(44 + dataSize) |-> 0]
        b1 == Put(b0, 0, writeString(<<"R", "I", "F", "F">>))
        b2 == Put(b1, 4, setUint32(36 + dataSize))
        b3 == Put(b2, 8, writeString(<<"W", "A", "V", "E">>))
        b4 == Put(b3, 12, writeString(<<"f", "m", "t", " ">>))
        b5 == Put(b4, 16, setUint32(16))
        b6 == Put(b5, 20, setUint16(1))
        b7 == Put(b6, 22, setUint16(numChannels))
        b8 == Put(b7, 24, setUint32(sampleRate))
        b9 == Put(b8, 28, setUint32(byteRate))
        b10 == Put(b9, 32, setUint16(blockAlign))
        b11 == Put(b10, 34, setUint16(bitsPerSample))
        b12 == Put(b11, 36, writeString(<<"d", "a", "t", "a">>))
        b13 == Put(b12, 40, setUint32(dataSize))
    IN  Put(b13, 44, pcmData)

\* The byte values payloads are made of.
PayloadBytes == {0, 128, 255}

\* The PCM payloads of up to MaxPayload bytes, the empty one included.
Payloads == UNION {[1..n -> PayloadBytes] : n \in 0..MaxPayload}

\* generateSpeech has returned a payload as base64 text.
InitWav ==
    /\ InitComponents
    /\ codec = NoSample
    /\ wav \in {[stage |-> "input", payload |-> b, base64 |-> encode(b),
                  out |-> <<>>] : b \in Payloads}

\* The text goes through createWavUrl.
CreateWav ==
    /\ wav.stage = "input"
    /\ wav' = [wav EXCEPT !.stage = "built", !.out = createWavUrl(wav.base64)]
    /\ UNCHANGED nonWav

NextWav ==
    \/ CreateWav

SpecWav == InitWav /\ [][NextWav]_vars

\* ---------------------------------------------------------- geminiService
\* (the one-shot generators that call it follow it)
\* The exported one-shot generation functions.
Functions ==
    {"extractPromptFromImage", "generativeResize", "editImage", "faceSwap",
     "generateImageFromText", "generateSpeech", "upscaleImage",
     "generateImageFromElements", "restyleImage", "virtualTryOn",
     "virtualTryOnMultiple"}

\* The message of the error each function throws when API_KEY is not set.
KeyError(fn) ==
    IF fn = "extractPromptFromImage"
    THEN "API_KEY environment variable not set."
    ELSE "API_KEY not set."

\* The model each function names in its request; generateImageFromText
\* switches model for the 4K aspect ratio.
Model(fn, fourK) ==
    CASE fn = "extractPromptFromImage" -> "gemini-3-flash-preview"
      [] fn = "faceSwap" -> "gemini-3-pro-image-preview"
      [] fn = "generateSpeech" -> "gemini-2.5-flash-preview-tts"
      [] fn = "generateImageFromText" /\ fourK -> "gemini-3-pro-image-preview"
      [] OTHER -> "gemini-2.5-flash-image"

\* What each function does with a response that carries no usable part.
Fallback(fn) ==
    CASE fn = "extractPromptFromImage" ->
             [state |-> "resolved", result |-> "Could not extract prompt."]
      [] fn = "generateSpeech" -> [state |-> "resolved", result |-> ""]
      [] fn = "generativeResize" -> [state |-> "rejected", result |-> "Resize failed."]
      [] fn = "editImage" -> [state |-> "rejected", result |-> "Edit failed."]
      [] fn = "faceSwap" -> [state |-> "rejected", result |-> "Face swap failed."]
      [] fn = "upscaleImage" -> [state |-> "rejected", result |-> "Upscaling failed."]
      [] fn = "restyleImage" -> [state |-> "rejected", result |-> "Restyle failed."]
      [] fn = "virtualTryOn" -> [state |-> "rejected", result |-> "Try-on failed."]
      [] fn = "virtualTryOnMultiple" ->
             [state |-> "rejected", result |-> "Multi try-on failed."]
      [] OTHER -> [state |-> "rejected", result |-> "Generation failed."]

\* Mutant of generate: the client is constructed before the key is tested.
generate_clientFirst(fn, hasKey, fourK) ==
    /\ Len(svcCalls) < MaxCalls
    /\ svcClients' = svcClients + 1
    /\ IF ~hasKey
       THEN /\ svcCalls' = Append(svcCalls,
                   [fn |-> fn, state |-> "rejected", result |-> KeyError(fn)])
            /\ UNCHANGED svcRequests
       ELSE /\ svcCalls' = Append(svcCalls,
                   [fn |-> fn, state |-> "awaiting", result |-> ""])
            /\ svcRequests' = Append(svcRequests,
                   [call |-> Len(svcCalls) + 1, model |-> Model(fn, fourK)])

\* A call of function fn up to its await: the key test, then the client and
\* the generateContent request.  hasKey: process.env.API_KEY is set.
generate(fn, hasKey, fourK) ==
    /\ Len(svcCalls) < MaxCalls
    /\ IF ~hasKey
       THEN /\ svcCalls' = Append(svcCalls,
                   [fn |-> fn, state |-> "rejected", result |-> KeyError(fn)])
            /\ UNCHANGED <<svcClients, svcRequests>>
       ELSE /\ svcClients' = svcClients + 1
            /\ svcCalls' = Append(svcCalls,
                   [fn |-> fn, state |-> "awaiting", result |-> ""])
            /\ svcRequests' = Append(svcRequests,
                   [call |-> Len(svcCalls) + 1, model |-> Model(fn, fourK)])

\* The outcomes of a generateContent request.
Outcomes == {"data", "empty", "error"}

\* generateContent settles for call i and the function runs to its end.
generate_resume(i, outcome) ==
    /\ svcCalls[i].state = "awaiting"
    /\ svcCalls' = [svcCalls EXCEPT ![i] =
           CASE outcome = "data" ->
                    [fn |-> @.fn, state |-> "resolved", result |-> "data"]
             [] outcome = "empty" ->
                    [fn |-> @.fn, state |-> Fallback(@.fn).state,
                     result |-> Fallback(@.fn).result]
             [] OTHER ->
                    [fn |-> @.fn, state |-> "rejected", result |-> "fetch failed"]]
    /\ UNCHANGED <<svcClients, svcRequests>>

ServiceCall ==
    \E fn \in Functions, hasKey \in BOOLEAN, fourK \in BOOLEAN :
        generate(fn, hasKey, fourK) /\ UNCHANGED nonSvc

ServiceResponse ==
    \E i \in 1..Len(svcCalls), outcome \in Outcomes :
        generate_resume(i, outcome) /\ UNCHANGED nonSvc

\* Every path that reaches the remote service: the one-shot functions and
\* the two live-session starts.
NextGate ==
    \/ ServiceCall
    \/ ServiceResponse
    \/ HandleStart
    \/ MicGranted
    \/ StartRecording
    \/ RecMicGranted

SpecGate == Init /\ [][NextGate]_vars

\* ------------------------------------------------- one-shot generators
\* What the awaited service function settles to, for a response outcome.
Awaited(fn, outcome) ==
    CASE outcome = "data" -> [state |-> "resolved", result |-> "data"]
      [] outcome = "empty" -> Fallback(fn)
      [] OTHER -> [state |-> "rejected", result |-> "fetch failed"]

\* setIsLoading(true); setError(null); setResult(null): a new action begins.
Begin(g) ==
    [g EXCEPT !.isLoading = TRUE, !.error = "null", !.result = "null",
              !.requests = 0]

\* The handler calls service function fn, which issues its request, and
\* suspends on it.
Request(g, fn) ==
    [g EXCEPT !.phase = "awaiting", !.fn = fn, !.requests = @ + 1]

\* Mutant of Catch: a failed request is issued once more.
Catch_retries(g, prefix, msg) ==
    IF g.phase = "awaiting" /\ g.requests < 2
    THEN [g EXCEPT !.requests = @ + 1]
    ELSE [g EXCEPT !.error = prefix \o msg, !.isLoading = FALSE,
                   !.phase = "idle", !.fn = "none"]

\* catch (e) { setError(prefix + e.message) } finally { setIsLoading(false) };
\* with an empty prefix, the validation exits of VirtualTryOn (setError,
\* setIsLoading(false), return).
Catch(g, prefix, msg) ==
    [g EXCEPT !.error = prefix \o msg, !.isLoading = FALSE,
              !.phase = "idle", !.fn = "none"]

\* The awaited call resolved: the result is set, then finally.
Then(g, value) ==
    [g EXCEPT !.result = value, !.isLoading = FALSE, !.phase = "idle",
              !.fn = "none"]

\* The prefix each component puts before the message of a caught error.
Prefix(c) ==
    IF c = "TTS" THEN "Speech generation failed: " ELSE "Generation failed: "

\* The service function is called: without a key it throws before any
\* request and the handler's catch runs; with one the request is issued.
Call(g, c, fn, hasKey) ==
    IF hasKey THEN Request(g, fn) ELSE Catch(g, Prefix(c), KeyError(fn))

\* ImageEditor.handleGenerateClick
handleGenerateClick(g, hasImage, hasPrompt, hasKey) ==
    IF ~hasImage \/ ~hasPrompt
    THEN [g EXCEPT !.error = "Please upload an image and provide an editing prompt."]
    ELSE Call(Begin(g), "ImageEditor", "editImage", hasKey)

\* TTS.handleGenerateSpeech
handleGenerateSpeech(g, hasText, hasKey) ==
    IF ~hasText
    THEN [g EXCEPT !.error = "Please enter some text to generate speech."]
    ELSE Call(Begin(g), "TTS", "generateSpeech", hasKey)

\* VirtualTryOn.handleGenerateClick from the garment checks on.
tryOn(g, hasKey) ==
    IF ~g.garment
    THEN Catch(g, "",
               IF g.fn = "virtualTryOn"
               THEN "Please upload a garment image."
               ELSE "Please upload at least one garment image for the outfit.")
    ELSE Call(g, "VirtualTryOn", g.fn, hasKey)

\* VirtualTryOn.handleGenerateClick up to its first suspension.  upload: the
\* model image is an uploaded one (hasModel: it is there); otherwise it is
\* fetched from its URL.  single: garmentMode is 'single'.
vtoHandleGenerateClick(g, upload, hasModel, single, hasGarment, hasKey) ==
    LET b == [Begin(g) EXCEPT
                 !.fn = IF single THEN "virtualTryOn" ELSE "virtualTryOnMultiple",
                 !.garment = hasGarment]
    IN  IF ~upload THEN [b EXCEPT !.phase = "fetching"]
        ELSE IF ~hasModel THEN Catch(b, "", "A model image is required.")
        ELSE tryOn(b, hasKey)

\* urlToImageFile settled.
vtoHandleGenerateClick_fetched(g, ok, hasKey) ==
    IF ok THEN tryOn(g, hasKey)
    ELSE Catch(g, Prefix("VirtualTryOn"), "Failed to fetch image")

\* The awaited service call of component c settled.
handleGenerate_resume(c, g, outcome) ==
    LET r == Awaited(g.fn, outcome)
    IN  IF r.state = "resolved"
        THEN Then(g, IF c = "TTS" THEN "blob:" ELSE r.result)
        ELSE Catch(g, Prefix(c), r.result)

\* The buttons: disabled while loading; the first two also while their
\* inputs are missing.
ImageEditorGenerate ==
    \E hasKey \in BOOLEAN :
        /\ ~gen["ImageEditor"].isLoading
        /\ gen' = [gen EXCEPT !["ImageEditor"] =
                       handleGenerateClick(@, TRUE, TRUE, hasKey)]
        /\ UNCHANGED nonGen

TTSGenerate ==
    \E hasKey \in BOOLEAN :
        /\ ~gen["TTS"].isLoading
        /\ gen' = [gen EXCEPT !["TTS"] = handleGenerateSpeech(@, TRUE, hasKey)]
        /\ UNCHANGED nonGen

VirtualTryOnGenerate ==
    \E upload, hasModel, single, hasGarment, hasKey \in BOOLEAN :
        /\ ~gen["VirtualTryOn"].isLoading
        /\ gen' = [gen EXCEPT !["VirtualTryOn"] =
                       vtoHandleGenerateClick(@, upload, hasModel, single,
                                              hasGarment, hasKey)]
        /\ UNCHANGED nonGen

ModelFetched ==
    \E ok, hasKey \in BOOLEAN :
        /\ gen["VirtualTryOn"].phase = "fetching"
        /\ gen' = [gen EXCEPT !["VirtualTryOn"] =
                       vtoHandleGenerateClick_fetched(@, ok, hasKey)]
        /\ UNCHANGED nonGen

GenerateSettled ==
    \E c \in Components, outcome \in Outcomes :
        /\ gen[c].phase = "awaiting"
        /\ gen' = [gen EXCEPT ![c] = handleGenerate_resume(c, @, outcome)]
        /\ UNCHANGED nonGen

NextGen ==
    \/ ImageEditorGenerate
    \/ TTSGenerate
    \/ VirtualTryOnGenerate
    \/ ModelFetched
    \/ GenerateSettled

SpecGen == Init /\ [][NextGen]_vars


\* ================================================================ claims
\* Every reference of the Conversation controller is null after the step.
RefsCleared ==
    /\ mediaStreamRef' = Null
    /\ scriptProcessorRef' = Null
    /\ inputAudioContextRef' = Null
    /\ outputAudioContextRef' = Null
    /\ sessionPromiseRef' = Null

\* Whatever the references held before the step is released after it: tracks
\* stopped, tap disconnected, contexts closed, close requested on the session.
HeldReleased ==
    /\ mediaStreamRef # Null => stream'[mediaStreamRef] = "stopped"
    /\ scriptProcessorRef # Null => proc'[scriptProcessorRef] = "disconnected"
    /\ inputAudioContextRef # Null => inCtx'[inputAudioContextRef] = "closed"
    /\ outputAudioContextRef # Null => outCtx'[outputAudioContextRef] = "closed"
    /\ sessionPromiseRef # Null => closeReq'[sessionPromiseRef]

TornDown == status' = "idle" /\ RefsCleared /\ HeldReleased

\* C1: an error event of the session, received in any non-idle state, tears
\* the controller down: held tracks stopped, tap disconnected, contexts
\* closed, session close requested, references cleared, status idle.
C1_ErrorTearsDown ==
    [][\A k \in Calls, e \in LifeErrors :
          (status # "idle" /\ onerror(k, e)) => TornDown]_vars

\* C2: stop() from any non-idle state leaves the controller idle with every
\* reference null, everything the references held released and close
\* requested on the held session.
C2_StopReleases ==
    [][(status # "idle" /\ HandleStop) => TornDown]_vars

\* C2 witness: stop() has run on an open, capturing session.
C2_Witness ==
    /\ status = "idle"
    /\ \E k \in Calls :
        /\ stream[k] = "stopped"
        /\ proc[k] = "disconnected"
        /\ inCtx[k] = "closed"
        /\ outCtx[k] = "closed"
        /\ sess[k] = "open"
        /\ closeReq[k]

\* No continuation of call k is pending: it is past getUserMedia, its session
\* is past connecting, and a close requested on it has taken effect.
Settled(k) ==
    /\ call[k] # "awaitMic"
    /\ sess[k] # "connecting"
    /\ ~(sess[k] = "open" /\ closeReq[k])

\* C3: when stop() overtook call k before its session opened, then once the
\* continuations of call k have run nothing call k acquired is still live:
\* no microphone stream, no open audio context, no open session.
C3_StopDuringStartLeavesNothing ==
    \A k \in cancelled :
        Settled(k) =>
            /\ stream[k] # "live"
            /\ inCtx[k] # "open"
            /\ outCtx[k] # "open"
            /\ sess[k] # "open"

\* Sessions that are connecting or open and on which no close was requested.
OpenSessions == {k \in Calls : sess[k] \in {"connecting", "open"} /\ ~closeReq[k]}

\* C4: at most one streaming session is open at any time.
C4_SingleFlight == Cardinality(OpenSessions) <= 1

\* C5: a close event of the session, received in any non-idle state, tears
\* the controller down to idle with every held handle released.
C5_CloseTearsDown ==
    [][\A k \in Calls : (status # "idle" /\ onclose(k)) => TornDown]_vars

\* The end of source i on the playback timeline.
EndOf(i) == sources[i].start + sources[i].dur

\* C6: every chunk starts no earlier than the clock value at which it was
\* scheduled and no earlier than the end of the chunk scheduled before it
\* with no interruption in between, and after a chunk the watermark
\* nextStartTime is that chunk's start plus its duration.
C6_PlaybackOrdering ==
    /\ \A i \in 1..Len(sources) :
        /\ sources[i].start >= hist[i].at
        /\ hist[i].prev # 0 => sources[i].start >= EndOf(hist[i].prev)
        /\ sources[i].start = Max(hist[i].at,
                                  IF hist[i].prev # 0 THEN EndOf(hist[i].prev) ELSE 0)
    /\ epoch = "chunk" => nextStartTimeRef = EndOf(Len(sources))

\* C6 witness: three chunks in a row, the second queued behind the first
\* (its start is later than the clock at its arrival), the third arriving
\* after the second's end.
C6_Witness ==
    /\ Len(sources) >= 3
    /\ hist[2].prev = 1 /\ sources[2].start > hist[2].at
    /\ hist[3].prev = 2 /\ hist[3].at > EndOf(2)

\* C7: after an interruption the active set is empty, no source is left
\* scheduled, nextStartTime is 0, and the next chunk scheduled starts at the
\* clock value of its arrival.
C7_InterruptionResets ==
    /\ epoch = "interrupted" =>
        /\ audioSourcesRef = {}
        /\ nextStartTimeRef = 0
        /\ \A i \in 1..Len(sources) : sources[i].state # "scheduled"
    /\ \A i \in 1..Len(sources) :
        hist[i].after = "interrupted" => sources[i].start = hist[i].at

\* C7 witness: a chunk scheduled after an interruption, at a clock value
\* earlier than the end of the chunk that was stopped before it.
C7_Witness ==
    \E i \in 2..Len(sources) :
        /\ hist[i].after = "interrupted"
        /\ sources[i - 1].state = "stopped"
        /\ EndOf(i - 1) > hist[i].at
        /\ sources[i].start = hist[i].at

\* The role buffers a message leaves for its own turn-complete block.
InputFor(m) == IF m.input # Absent THEN m.input[1] ELSE currentInputTextRef
OutputFor(m) == IF m.output # Absent THEN m.output[1] ELSE currentOutputTextRef

\* C8: a turn-complete event appends nothing when both trimmed texts are
\* empty, and otherwise appends exactly the user entry then the model entry,
\* carrying the trimmed texts.
C8_TurnCommit ==
    [][\A k \in Calls, m \in TurnMessages :
          (m.turnComplete /\ onmessage(k, m)) =>
              IF Trim(InputFor(m)) = <<>> /\ Trim(OutputFor(m)) = <<>>
              THEN conversation' = conversation
              ELSE /\ Len(conversation') = Len(conversation) + 2
                   /\ SubSeq(conversation', 1, Len(conversation)) = conversation
                   /\ conversation'[Len(conversation) + 1] =
                          [role |-> "user", text |-> Trim(InputFor(m))]
                   /\ conversation'[Len(conversation) + 2] =
                          [role |-> "model", text |-> Trim(OutputFor(m))]]_vars

\* C8 witness: a committed turn whose user text is empty and whose model
\* text was trimmed.
C8_Witness ==
    /\ Len(conversation) = 2
    /\ conversation[1] = [role |-> "user", text |-> <<>>]
    /\ conversation[2] = [role |-> "model", text |-> <<"b", " ", "c">>]

\* C9: a partial transcript replaces its role's buffer with the event's text
\* and leaves the other role's buffer alone, and a turn-complete event
\* leaves both buffers empty.
C9_OverwriteAndReset ==
    [][\A k \in Calls, m \in TurnMessages :
          onmessage(k, m) =>
              IF m.turnComplete
              THEN currentInputTextRef' = <<>> /\ currentOutputTextRef' = <<>>
              ELSE /\ currentInputTextRef' =
                          IF m.input # Absent THEN m.input[1] ELSE currentInputTextRef
                   /\ currentOutputTextRef' =
                          IF m.output # Absent THEN m.output[1] ELSE currentOutputTextRef]_vars

\* C9 witness: a second partial for the user role has replaced a first one
\* of a turn already committed, and the log holds only the first.
C9_Witness ==
    /\ Len(conversation) = 2
    /\ conversation[1].text = <<"a">>
    /\ currentInputTextRef = <<"b", " ", "c", " ">>
    /\ currentOutputTextRef = <<>>

\* C10: on turn-complete the transcriber appends the trimmed latest partial
\* text as a new line exactly when it is non-empty, and in both cases clears
\* the turn buffer and the interim transcript.
C10_TranscriberCommit ==
    [][\A k \in Calls, m \in RecTurnMessages :
          (m.turnComplete /\ recOnmessage(k, m)) =>
              /\ transcription' =
                     IF Trim(recPartial(m)) = <<>> THEN transcription
                     ELSE IF transcription = <<>> THEN Trim(recPartial(m))
                     ELSE transcription \o <<"\n">> \o Trim(recPartial(m))
              /\ currentTurnTextRef' = <<>>
              /\ interimTranscript' = <<>>]_vars

\* C10 witness: two completed turns, in order, on two lines, with the
\* buffers cleared.
C10_Witness ==
    /\ transcription = <<"a", "\n", "b", " ", "c">>
    /\ currentTurnTextRef = <<>>
    /\ interimTranscript = <<>>

\* C11: start() without a credential acquires nothing: no getUserMedia call is
\* made, no audio context is created and no session is opened; an error is
\* shown and the controller is idle with every reference null.
C11_NoCredentialFailsFast ==
    [][(status = "idle" /\ handleStart(FALSE)) =>
          /\ nStarts' = nStarts
          /\ call' = call
          /\ \A k \in Calls :
                /\ stream'[k] = "live" => stream[k] = "live"
                /\ inCtx'[k] = "open" => inCtx[k] = "open"
                /\ outCtx'[k] = "open" => outCtx[k] = "open"
          /\ sess' = sess
          /\ error' # "null"
          /\ status' = "idle"
          /\ RefsCleared]_vars

\* C11 witness: the first start() had no credential: its error is shown and
\* nothing was ever acquired.
C11_Witness ==
    /\ error = StartFailed("API_KEY environment variable not set.")
    /\ status = "idle"
    /\ nStarts = 0
    /\ \A k \in Calls : stream[k] = "none" /\ inCtx[k] = "none" /\ sess[k] = "none"
    /\ mediaStreamRef = Null /\ sessionPromiseRef = Null

\* C12: when getUserMedia fails, the error shown is the check-permissions
\* message, the call opens no session, and the controller is torn down to
\* idle with every reference null.
C12_MicFailure ==
    [][\A k \in Calls :
          handleStart_catch(k) =>
              /\ error' = CheckPermissions
              /\ sess'[k] = "none"
              /\ TornDown]_vars

\* Text d contains the lower-case word w at some position, letter case aside.
ContainsCI(d, w) ==
    \E i \in 0..(Len(d) - Len(w)) :
        \A j \in 1..Len(w) :
            \/ d[i + j] = w[j]
            \/ \E n \in 1..Len(Lower) : Lower[n] = w[j] /\ Upper[n] = d[i + j]

\* C13: the error shown after an error event is the service-unavailable
\* message when the description contains "unavailable", otherwise the
\* internal-error message when it contains "internal error", otherwise the
\* check-permissions message when it contains "microphone", otherwise the
\* try-again message; the match ignores letter case, and the error shown is
\* always one of the four.
C13_Classification ==
    [][\A k \in Calls, e \in ErrorEvents :
          onerror(k, e) =>
              /\ error' \in {ServiceUnavailable, InternalError, CheckPermissions, TryAgain}
              /\ error' =
                    IF ContainsCI(message(e), <<"u", "n", "a", "v", "a", "i", "l", "a", "b", "l", "e">>)
                    THEN ServiceUnavailable
                    ELSE IF ContainsCI(message(e), <<"i", "n", "t", "e", "r", "n", "a", "l", " ", "e", "r", "r", "o", "r">>)
                    THEN InternalError
                    ELSE IF ContainsCI(message(e), <<"m", "i", "c", "r", "o", "p", "h", "o", "n", "e">>)
                    THEN CheckPermissions
                    ELSE TryAgain]_vars

\* C13 witness: the check-permissions message is shown after an error event
\* (the sample messages spell the keyword "MicroPhone"), and the session
\* that reported it is broken.
C13_Witness ==
    /\ error = CheckPermissions
    /\ \E k \in Calls : sess[k] = "errored"

\* C14: start() with a credential moves idle to connecting and the granted
\* microphone leaves it there; the open event moves the status to listening;
\* a message moves it to listening when it completes the turn, otherwise to
\* thinking when it carries an output partial, and otherwise (an input
\* partial included) leaves it unchanged; and the status leaves idle only
\* for connecting.
C14_StatusMachine ==
    [][/\ (status = "idle" /\ handleStart(TRUE)) => status' = "connecting"
       /\ \A k \in Calls : handleStart_resume(k) => status' = status
       /\ \A k \in Calls : onopen(k) => status' = "listening"
       /\ \A k \in Calls, m \in Messages :
             onmessage(k, m) =>
                 status' = IF m.turnComplete THEN "listening"
                           ELSE IF m.output # Absent THEN "thinking"
                           ELSE status
       /\ status = "idle" => status' \in {"idle", "connecting"}]_vars

\* C15: a block captured while the session the controller holds is open
\* produces exactly one send, issued at once on that session whatever the
\* state of the earlier deliveries, and carrying the block's encoded data;
\* and the sends of one session are issued in capture order.
C15_CaptureOrdering ==
    [][/\ \A k \in Calls, d \in Blocks :
             (/\ sessionPromiseRef # Null
              /\ sess[sessionPromiseRef] = "open"
              /\ onaudioprocess(k, d)) =>
                 /\ Len(sent') = Len(sent) + 1
                 /\ SubSeq(sent', 1, Len(sent)) = sent
                 /\ sent'[Len(sent')] =
                        [block |-> captured + 1, data |-> createBlob(d),
                         session |-> sessionPromiseRef, delivered |-> FALSE]
                 /\ pend' = pend
       /\ \A i, j \in 1..Len(sent') :
             (i < j /\ sent'[i].session = sent'[j].session) =>
                 sent'[i].block < sent'[j].block]_vars

\* C15 witness: three consecutive blocks sent on one open session, in
\* capture order, the third delivered while the first is still in flight.
C15_Witness ==
    /\ Len(sent) = 3
    /\ \A i \in 1..3 : sent[i].block = i /\ sent[i].session = sent[1].session
    /\ sess[sent[1].session] = "open"
    /\ ~sent[1].delivered
    /\ sent[3].delivered

\* A step that asks for the microphone or opens a session.
NewRequest == \E j \in Calls : call[j] = "none" /\ call'[j] = "awaitMic"
NewSession == \E j \in Calls : sess[j] = "none" /\ sess'[j] # "none"

C17_NoOrphanedAudio ==
    [][(status # "idle" /\ HandleStop) =>
          /\ audioSourcesRef' = {}
          /\ \A i \in 1..Len(sources') :
                ~(sources'[i].state = "scheduled" /\ outCtx'[sources'[i].ctx] = "open")]_vars

\* The state a teardown leaves, and the one before anything is acquired.
RefsNull ==
    /\ mediaStreamRef = Null
    /\ scriptProcessorRef = Null
    /\ inputAudioContextRef = Null
    /\ outputAudioContextRef = Null
    /\ sessionPromiseRef = Null

\* C18: stop() when idle changes nothing; the teardown routine, run when
\* every reference is null (a second time in a row, or with nothing ever
\* acquired), stops and closes nothing and leaves the references null; and
\* no track, tap, context or session is ever stopped or closed twice.
C18_TeardownIdempotent ==
    [][/\ (status = "idle" /\ HandleStop) => UNCHANGED vars
       /\ (RefsNull /\ (Unmount \/ \E k \in Calls : handleStart_catch(k))) =>
             UNCHANGED <<refVars, resVars, released>>
       /\ \A k \in Calls :
             /\ released'[k].stream <= 1
             /\ released'[k].proc <= 1
             /\ released'[k].inCtx <= 1
             /\ released'[k].outCtx <= 1
             /\ released'[k].sess <= 1]_vars

\* C18 witness: an open, capturing session was stopped and the component
\* then unmounted: teardown ran twice and every resource of the session was
\* released once.
C18_Witness ==
    /\ ~mounted
    /\ status = "idle"
    /\ nStarts = 1
    /\ sess[1] = "open" /\ closeReq[1]
    /\ released[1] = [stream |-> 1, proc |-> 1, inCtx |-> 1, outCtx |-> 1, sess |-> 1]

\* C19: without the credential no remote-call path reaches the network: a
\* one-shot function is rejected with its key error and constructs no client
\* and issues no request; neither live start asks for the microphone or
\* opens a session, and each shows an error.
C19_CredentialGate ==
    [][/\ \A fn \in Functions, fourK \in BOOLEAN :
             generate(fn, FALSE, fourK) =>
                 /\ svcClients' = svcClients
                 /\ svcRequests' = svcRequests
                 /\ svcCalls'[Len(svcCalls')].state = "rejected"
                 /\ svcCalls'[Len(svcCalls')].result = KeyError(fn)
       /\ (status = "idle" /\ handleStart(FALSE)) =>
             /\ call' = call /\ sess' = sess /\ sessionPromiseRef' = Null
             /\ error' = StartFailed("API_KEY environment variable not set.")
       /\ (~isRecording /\ handleStartRecording(FALSE)) =>
             /\ recCall' = recCall /\ recSess' = recSess
             /\ recSessionPromiseRef' = Null
             /\ recError' = RecordingFailed("API_KEY environment variable not set.")
       /\ (svcClients' # svcClients \/ svcRequests' # svcRequests) =>
             \E fn \in Functions, fourK \in BOOLEAN : generate(fn, TRUE, fourK)]_vars

\* C19 witness: a one-shot call and both live starts were made without the
\* credential: each failed with its error and nothing was constructed,
\* requested or connected.
C19_Witness ==
    /\ Len(svcCalls) = 1
    /\ svcCalls[1].state = "rejected"
    /\ svcCalls[1].result = KeyError(svcCalls[1].fn)
    /\ svcClients = 0 /\ svcRequests = <<>>
    /\ error = StartFailed("API_KEY environment variable not set.")
    /\ recError = RecordingFailed("API_KEY environment variable not set.")
    /\ nStarts = 0 /\ recStarts = 0
    /\ \A k \in Calls : sess[k] = "none" /\ recSess[k] = "none"

\* The distance between two numbers.
Distance(a, b) == IF a >= b THEN a - b ELSE b - a

\* C20: a sample of [-1, 1], both ends included, encoded by createBlob and
\* decoded by decodeAudioData, comes back within 1/32768 of itself.
C20_RoundTrip ==
    codec.stage = "decoded" =>
        /\ Len(codec.out) = 1
        /\ Distance(codec.out[1], codec.s) <= SampleDen \div Int16Scale

\* The little-endian numbers declared in a container's header.
Uint16At(bytes, offset) == bytes[offset + 1] + 256 * bytes[offset + 2]
Uint32At(bytes, offset) ==
    bytes[offset + 1] + 256 * bytes[offset + 2]
        + 65536 * bytes[offset + 3] + 16777216 * bytes[offset + 4]

\* C21: for a payload of N bytes createWavUrl produces 44 + N bytes: the
\* RIFF size is 36 + N, the data size N, the format is PCM (1), mono,
\* 24000 Hz, 16 bits, block align 2, byte rate 48000, and the payload follows
\* the header unchanged.
C21_WavHeader ==
    wav.stage = "built" =>
        LET N == Len(wav.payload)
        IN  /\ Len(wav.out) = 44 + N
            /\ SubSeq(wav.out, 1, 4) = <<82, 73, 70, 70>>
            /\ Uint32At(wav.out, 4) = 36 + N
            /\ SubSeq(wav.out, 9, 16) = <<87, 65, 86, 69, 102, 109, 116, 32>>
            /\ Uint32At(wav.out, 16) = 16
            /\ Uint16At(wav.out, 20) = 1
            /\ Uint16At(wav.out, 22) = 1
            /\ Uint32At(wav.out, 24) = 24000
            /\ Uint32At(wav.out, 28) = 48000
            /\ Uint16At(wav.out, 32) = 2
            /\ Uint16At(wav.out, 34) = 16
            /\ SubSeq(wav.out, 37, 40) = <<100, 97, 116, 97>>
            /\ Uint32At(wav.out, 40) = N
            /\ SubSeq(wav.out, 45, 44 + N) = wav.payload

\* C21 witness: a container was built for a payload of three bytes or more
\* with a byte above 127 in it.
C21_Witness ==
    /\ wav.stage = "built"
    /\ Len(wav.payload) >= 3
    /\ wav.payload[1] = 255
    /\ Len(wav.out) = 44 + Len(wav.payload)

\* C22: every frame is sent on a session that has reported open and whose
\* teardown has not begun: the session is not broken and no close of it was
\* requested by stop() or the unmount.
C22_CaptureOnlyWhileOpen ==
    [][\A i \in (Len(sent) + 1)..Len(sent') :
          /\ sess'[sent'[i].session] = "open"
          /\ ~closeReq'[sent'[i].session]]_vars

\* C23: the active set holds exactly the sources that were scheduled and have
\* neither played to their end nor been stopped by an interruption.
C23_ActiveSetExact ==
    audioSourcesRef = {i \in 1..Len(sources) : sources[i].state = "scheduled"}

\* C23 witness: of three chunks the first played to its end, the second was
\* stopped by an interruption and the third is waiting: the set holds the
\* third alone.
C23_Witness ==
    /\ Len(sources) = 3
    /\ sources[1].state = "ended"
    /\ sources[2].state = "stopped"
    /\ sources[3].state = "scheduled"
    /\ audioSourcesRef = {3}

\* C24: the active set changes only in a message step that schedules a chunk
\* or carries an interruption: start(), stop(), session open, error and close
\* events, partial transcripts and turn ends leave it as it is.
C24_ActiveSetFrame ==
    [][audioSourcesRef' # audioSourcesRef =>
          \E m \in FrameMessages :
              /\ Schedules(m) \/ m.interrupted
              /\ sessionPromiseRef # Null
              /\ onmessage(sessionPromiseRef, m)]_vars

\* C24 witness: a turn ended and stop() ran while a scheduled chunk was in
\* the set, and it is in the set still.
C24_Witness ==
    /\ status = "idle"
    /\ Len(conversation) = 0
    /\ closeReq[1]
    /\ outCtx[1] = "closed"
    /\ sources # <<>>
    /\ audioSourcesRef = {1}

\* C25: a session is opened with the table's instruction for the language
\* selected at its start(), and the instruction of every open session that
\* is not being closed is the one of the language the select shows.
C25_InstructionMatchesLanguage ==
    \A k \in Calls :
        /\ sess[k] # "none" =>
              /\ lang[k] \in DOMAIN conversationLanguagePrompts
              /\ systemInstruction[k] = conversationLanguagePrompts[lang[k]]
        /\ (sess[k] = "open" /\ ~closeReq[k]) =>
              systemInstruction[k] = languageInstruction(selectedLanguage)

\* C26: each generate action issues at most one service request; a step in
\* which its request fails issues no other, leaves the result unset and shows
\* an error; whenever no action of a component is in flight its loading flag
\* is false, and its error is shown when it ended with no result and without
\* a request in flight; a step of one component leaves the others alone.
C26_SingleAttempt ==
    [][\A c \in Components :
          /\ gen'[c].requests <= 1
          /\ gen'[c].requests >= gen[c].requests \/ gen'[c].requests = 0
          /\ ~(gen[c].phase = "awaiting" /\ gen'[c].requests > gen[c].requests)
          /\ (gen[c].phase # "idle" /\ gen'[c].phase = "idle") =>
                /\ ~gen'[c].isLoading
                /\ (gen'[c].result = "null") # (gen'[c].error = "null")
          /\ gen'[c].phase = "idle" => ~gen'[c].isLoading
          /\ gen'[c] # gen[c] =>
                \A d \in Components \ {c} : gen'[d] = gen[d]]_vars

\* C26 witness: ImageEditor's request failed: one request was issued, the
\* error is shown, no result is set and nothing is loading, while TTS ended
\* with its result and VirtualTryOn was rejected before any request.
C26_Witness ==
    /\ gen["ImageEditor"] =
           [Fresh EXCEPT !.error = "Generation failed: Edit failed.", !.requests = 1]
    /\ gen["TTS"] = [Fresh EXCEPT !.result = "blob:", !.requests = 1]
    /\ gen["VirtualTryOn"].error = "Please upload a garment image."
    /\ gen["VirtualTryOn"].requests = 0
    /\ ~gen["VirtualTryOn"].isLoading

\* C27: once stop() has returned the controller to idle and no start()
\* followed, a message still delivered by the session that stop() told to
\* close leaves the status idle, the log as it is, and schedules no audio.
C27_NoRevival ==
    [][\A k \in Calls, m \in LateMessages :
          (status = "idle" /\ closeReq[k] /\ k = nStarts /\ onmessage(k, m)) =>
              /\ status' = "idle"
              /\ conversation' = conversation
              /\ sources' = sources]_vars

\* The playing time of the sources of a set.
RECURSIVE Playing(_, _)
Playing(srcs, set) ==
    IF set = {} THEN 0
    ELSE LET i == CHOOSE j \in set : TRUE
         IN  srcs[i].dur + Playing(srcs, set \ {i})

\* C28: a chunk is never scheduled after an interruption that arrived after
\* the chunk's message was handled; with the clock standing still, the active
\* set holds scheduled sources only and nextStartTime is the playing time of
\* exactly the chunks in it, those that arrived after the last interruption.
C28_NoScheduleAfterInterruption ==
    [][/\ (Len(sources') > Len(sources) /\ microtasks # <<>>) =>
              ~Head(microtasks).overtaken
       /\ \A i \in audioSourcesRef' : sources'[i].state = "scheduled"
       /\ nextStartTimeRef' = Playing(sources', audioSourcesRef')]_vars

\* C28 witness: a chunk was scheduled, an interruption followed, and a chunk
\* that arrived after it is the only one in the active set.
C28_Witness ==
    /\ Len(sources) = 2
    /\ sources[1].state = "stopped"
    /\ sources[2].state = "scheduled"
    /\ audioSourcesRef = {2}
    /\ nextStartTimeRef = sources[2].dur
    /\ microtasks = <<>>

\* C29: when the session of the latest start() delivers its first event to
\* a controller that is waiting for it, it finds the slate its start() left:
\* an empty log, no error, both partial buffers empty and nextStartTime 0;
\* nothing of an earlier session has been carried over.
C29_CleanSlate ==
    [][\A k \in Calls :
          (/\ k = nStarts /\ status = "connecting" /\ ~closeReq[k]
           /\ sess[k] = "connecting" /\ sess'[k] = "open") =>
              /\ conversation = <<>>
              /\ error = "null"
              /\ currentInputTextRef = <<>>
              /\ currentOutputTextRef = <<>>
              /\ nextStartTimeRef = 0]_vars

\* C30: every step either leaves the entries of the log in place, adding
\* nothing or one pair at its end, or is a start() that empties it; the log
\* always has even length, with a user entry at every odd position and a
\* model entry at every even one.
C30_LogAppendOnly ==
    [][/\ \/ /\ Len(conversation') \in {Len(conversation), Len(conversation) + 2}
             /\ SubSeq(conversation', 1, Len(conversation)) = conversation
          \/ conversation' = <<>> /\ HandleStart
       /\ Len(conversation') % 2 = 0
       /\ \A i \in DOMAIN conversation' :
             conversation'[i].role = IF i % 2 = 1 THEN "user" ELSE "model"]_vars

\* C30 witness: the log of a second session holds two turns in the order
\* they ended, the first with an empty user entry.
C30_Witness ==
    /\ nStarts = 2
    /\ conversation =
          << [role |-> "user", text |-> <<>>],
             [role |-> "model", text |-> <<"a">>],
             [role |-> "user", text |-> <<"b", " ", "c">>],
             [role |-> "model", text |-> <<>>] >>

====
